---- MODULE Spec2Model ----
(***************************************************************************)
(* Model of cross-keychain: the Encrypted File Store (FileSystemBackend)   *)
(* over a shared file system, and the backend registry.                    *)
(*                                                                         *)
(* Strings are sequences of characters.  A JavaScript object is the        *)
(* sequence of its own properties in insertion order, each a record        *)
(* [k |-> key, v |-> value]; properties inherited from Object.prototype    *)
(* are modelled by JsGet / JsIn / JsAssign for the key "__proto__".        *)
(* randomBytes is modelled as a source of fresh values (two draws never    *)
(* collide).  AES-256-GCM is modelled symbolically: a ciphertext records   *)
(* the key and nonce of its keystream and the plaintext it hides, the      *)
(* authentication tag records key, nonce and ciphertext.                   *)
(***************************************************************************)
EXTENDS Integers, Sequences, FiniteSets, TLC

\* ------------------------------------------------------------------ bounds
MaxKeys == 2     \* randomBytes(32) draws explored
MaxNonce == 2    \* randomBytes(12) draws explored
MaxCalls == 2    \* calls of the backend's operations started in a run

\* ------------------------------------------------------- program constants
MaxIdentifierLength == 255
MaxPasswordLength == 4096
FormatVersion == 1

Procs == {"p1", "p2"}

\* ------------------------------------------------------------------ strings
Repeat(c, n) == [i \in 1..n |-> c]

Lower == {"a","b","c","d","e","f","g","h","i","j","k","l","m",
          "n","o","p","q","r","s","t","u","v","w","x","y","z"}
Upper == {"A","B","C","D","E","F","G","H","I","J","K","L","M",
          "N","O","P","Q","R","S","T","U","V","W","X","Y","Z"}
Digits == {"0","1","2","3","4","5","6","7","8","9"}
\* the character class of identifierPattern
IdentifierChars == Lower \cup Upper \cup Digits \cup {".", "_", "@", "-"}

\* U+0301 COMBINING ACUTE ACCENT and U+00E9, the composed form of e + U+0301
CombiningAcute == "U+0301"
EAcute == "U+00E9"

\* String.prototype.normalize("NFC"): canonical composition, here of the
\* pair e + U+0301 into U+00E9
normalizeString(value) ==
    LET composed == [i \in 1..Len(value) |->
            IF i > 1 /\ value[i] = CombiningAcute /\ value[i - 1] = "e" THEN ""
            ELSE IF value[i] = "e" /\ i < Len(value)
                    /\ value[i + 1] = CombiningAcute THEN EAcute
            ELSE value[i]]
    IN SelectSeq(composed, LAMBDA c : c # "")

\* validateIdentifier: "" when accepted, else the error class thrown
validateIdentifier(value) ==
    LET normalized == normalizeString(value) IN
    IF Len(normalized) = 0 THEN "KeyringError"
    ELSE IF Len(normalized) > MaxIdentifierLength THEN "KeyringError"
    ELSE IF \E i \in 1..Len(normalized) : normalized[i] \notin IdentifierChars
         THEN "KeyringError"
    ELSE ""

\* validatePassword: "" when accepted, else the error class thrown
validatePassword(password) ==
    LET normalized == normalizeString(password) IN
    IF Len(normalized) = 0 THEN "KeyringError"
    ELSE IF Len(normalized) > MaxPasswordLength THEN "KeyringError"
    ELSE ""

\* ------------------------------------------------------------ input values
Svc == <<"s","v","c">>
Alice == <<"a">>
Bob == <<"b">>
ProtoKey == <<"_","_","p","r","o","t","o","_","_">>
EmptyString == <<>>
BadCharId == <<"s", ";">>
LongId == Repeat("a", MaxIdentifierLength + 1)
\* getCredential called without an account (undefined or null)
NoAccount == <<"<undefined>">>

PwP == <<"p">>
PwQ == <<"q">>          \* "p" and "q" differ in exactly one bit
PwDecomposed == <<"e", CombiningAcute>>
LongPw == Repeat("x", MaxPasswordLength + 1)

ValidServices == {Svc}
InvalidIds == {EmptyString, BadCharId, LongId}
ServiceInputs == ValidServices \cup InvalidIds
ValidAccounts == {Alice, Bob, ProtoKey}
AccountInputs == ValidAccounts \cup InvalidIds
ValidPasswords == {PwP, PwQ}
PasswordInputs == ValidPasswords \cup {EmptyString, LongPw}

\* The first caller draws its arguments from all valid values and from
\* argument lists with one invalid value; the second caller, which runs
\* concurrently with it, from a few valid ones.
\* arguments of getPassword
GetInputs(p) ==
    IF p = "p1"
    THEN (ValidServices \X ValidAccounts)
         \cup (InvalidIds \X {Alice}) \cup ({Svc} \X InvalidIds)
    ELSE {<<Svc, Alice>>}
\* arguments of deletePassword
DeleteInputs(p) ==
    IF p = "p1"
    THEN (ValidServices \X {Alice, ProtoKey})
         \cup {<<LongId, Alice>>, <<Svc, BadCharId>>}
    ELSE {<<Svc, Alice>>}
\* arguments of setPassword
SetInputs(p) ==
    IF p = "p1"
    THEN (ValidServices \X {Alice, ProtoKey} \X {PwP})
         \cup {<<Svc, Alice, PwQ>>}
         \cup {<<BadCharId, Alice, PwP>>, <<Svc, LongId, PwP>>}
         \cup ({Svc} \X {Alice} \X {EmptyString, LongPw})
    ELSE {<<Svc, Bob, PwQ>>}
\* arguments of getCredential, the account possibly omitted
CredentialInputs(p) ==
    IF p = "p1"
    THEN (ValidServices \X {Alice, ProtoKey})
         \cup {<<EmptyString, Alice>>, <<Svc, EmptyString>>}
         \cup ({Svc, BadCharId} \X {NoAccount})
    ELSE {<<Svc, NoAccount>>}

\* the verdicts of validateIdentifier and validatePassword on the inputs
IdentifierVerdict ==
    [v \in ServiceInputs \cup AccountInputs |-> validateIdentifier(v)]
PasswordVerdict == [v \in PasswordInputs |-> validatePassword(v)]

\* -------------------------------------------------------- JavaScript values
Undefined == [kind |-> "undefined", v |-> <<>>]
JsNull == [kind |-> "null", v |-> <<>>]
\* the object Object.prototype, reached through the inherited __proto__ getter
ObjectPrototype == [kind |-> "objectPrototype", v |-> <<>>]
JsString(s) == [kind |-> "string", v |-> s]
JsObject(o) == [kind |-> "object", v |-> o]

HasOwn(obj, key) == \E i \in 1..Len(obj) : obj[i].k = key
OwnIndex(obj, key) == CHOOSE i \in 1..Len(obj) : obj[i].k = key

\* obj[key] = value on an own data property (CreateDataProperty / [[Set]])
DefineOwn(obj, key, value) ==
    IF HasOwn(obj, key)
    THEN [obj EXCEPT ![OwnIndex(obj, key)] = [k |-> key, v |-> value]]
    ELSE Append(obj, [k |-> key, v |-> value])

\* obj[key] where the own values of obj are strings
JsGetString(obj, key) ==
    IF HasOwn(obj, key) THEN JsString(obj[OwnIndex(obj, key)].v)
    ELSE IF key = ProtoKey THEN ObjectPrototype
    ELSE Undefined

\* obj[key] where the own values of obj are objects
JsGetObject(obj, key) ==
    IF HasOwn(obj, key) THEN JsObject(obj[OwnIndex(obj, key)].v)
    ELSE IF key = ProtoKey THEN ObjectPrototype
    ELSE Undefined

\* obj[key] = value for a string value: the inherited __proto__ setter
\* ignores a value that is neither an object nor null
JsAssignString(obj, key, value) ==
    IF key = ProtoKey /\ ~HasOwn(obj, key) THEN obj
    ELSE DefineOwn(obj, key, value)

\* key in obj
JsIn(obj, key) == HasOwn(obj, key) \/ key = ProtoKey

\* delete obj[key]
JsDelete(obj, key) ==
    IF HasOwn(obj, key)
    THEN SubSeq(obj, 1, OwnIndex(obj, key) - 1)
         \o SubSeq(obj, OwnIndex(obj, key) + 1, Len(obj))
    ELSE obj

\* Object.keys(obj)
ObjectKeys(obj) == [i \in 1..Len(obj) |-> obj[i].k]

\* --------------------------------------------------------------------- JSON
LBrace == [t |-> "{", s |-> <<>>]
RBrace == [t |-> "}", s |-> <<>>]
StrTok(s) == [t |-> "str", s |-> s]

\* JSON.stringify of Record<string, Record<string, string>>, as tokens
RECURSIVE StringifyMembers(_, _)
StringifyMembers(obj, depth) ==
    IF obj = <<>> THEN <<>>
    ELSE <<StrTok(Head(obj).k)>>
         \o (IF depth = 1
             THEN <<LBrace>> \o StringifyMembers(Head(obj).v, 2) \o <<RBrace>>
             ELSE <<StrTok(Head(obj).v)>>)
         \o StringifyMembers(Tail(obj), depth)

JSONstringify(store) == <<LBrace>> \o StringifyMembers(store, 1) \o <<RBrace>>

ParseFail == [ok |-> FALSE, val |-> <<>>, rest |-> <<>>]

\* JSON.parse: value := string | "{" (string value)* "}"
RECURSIVE ParseValue(_)
RECURSIVE ParseMembers(_, _)
ParseValue(toks) ==
    IF toks = <<>> THEN ParseFail
    ELSE IF Head(toks).t = "str"
         THEN [ok |-> TRUE, val |-> Head(toks).s, rest |-> Tail(toks)]
    ELSE IF Head(toks).t = "{" THEN ParseMembers(Tail(toks), <<>>)
    ELSE ParseFail

ParseMembers(toks, acc) ==
    IF toks = <<>> THEN ParseFail
    ELSE IF Head(toks).t = "}"
         THEN [ok |-> TRUE, val |-> acc, rest |-> Tail(toks)]
    ELSE IF Head(toks).t # "str" THEN ParseFail
    ELSE LET member == ParseValue(Tail(toks)) IN
         IF ~member.ok THEN ParseFail
         ELSE ParseMembers(member.rest, DefineOwn(acc, Head(toks).s, member.val))

JSONparse(text) ==
    LET r == ParseValue(text) IN
    IF r.ok /\ r.rest = <<>> THEN [ok |-> TRUE, val |-> r.val]
    ELSE [ok |-> FALSE, val |-> <<>>]

\* ----------------------------------------------------------- AES-256-GCM
\* cipher.update/final: the plaintext under the keystream of (key, iv)
Encrypt(key, iv, plaintext) == [k |-> key, n |-> iv, body |-> plaintext]
\* cipher.getAuthTag
AuthTag(key, iv, encrypted) == [k |-> key, n |-> iv, c |-> encrypted]
\* decipher.update: another keystream yields bytes that are no JSON text
Garbage == <<[t |-> "garbage", s |-> <<>>]>>
Decrypt(key, iv, encrypted) ==
    IF encrypted.k = key /\ encrypted.n = iv THEN encrypted.body ELSE Garbage

\* ------------------------------------------------------------ file contents
NoFile == [kind |-> "absent"]
\* a file opened for writing whose bytes are not all written yet
PartialFile == [kind |-> "partial"]
KeyBytes(key) == [kind |-> "key", key |-> key]
\* version(1) ++ iv(12) ++ authTag(16) ++ ciphertext; "tamper" is a history
\* field (which part was altered after the write), never read by the program
Envelope(version, iv, authTag, encrypted) ==
    [kind |-> "envelope", version |-> version, iv |-> iv,
     authTag |-> authTag, encrypted |-> encrypted, tamper |-> "none"]


\* ------------------------------------------------------------------- state
VARIABLES
    storeFile,     \* content of the file at filePath
    keyFile,       \* content of the file at keyFilePath
    tmpFile,       \* per caller, content of the temporary file of atomicWrite
    envKey,        \* process.env.KEYRING_FILE_MASTER_KEY: "unset", "valid", "short"
    loc,           \* per caller, the operation in progress and its locals
    keysDrawn,     \* number of randomBytes(32) results so far
    noncesDrawn,   \* number of randomBytes(12) results so far
    calls,         \* number of calls started so far
    quietSet       \* history: the setPassword that completed last, while
                   \* nothing else has run on the store since

storeVars == <<storeFile, keyFile, tmpFile, envKey, loc, keysDrawn,
               noncesDrawn, calls, quietSet>>

VARIABLES
    builtinFactories,  \* the factory list of the registry
    cachedBackends,    \* the cached backend list, or Undefined
    activeBackend,     \* the installed backend, or Undefined
    backendLimit,      \* the limit of the last initBackend
    envBackend,        \* process.env.TS_KEYRING_BACKEND, "" when unset
    configFile,        \* what readConfig finds at the config path
    platform,          \* the host the probes of the factories look at
    task,              \* per asynchronous call, its position and locals
    instances,         \* number of construction rounds so far
    regCalls           \* number of registry calls started so far

regVars == <<builtinFactories, cachedBackends, activeBackend, backendLimit,
             envBackend, configFile, platform, task, instances, regCalls>>

VARIABLES
    procEnv,           \* process.env: the variables in the order of Object.entries
    objects            \* the ConfigurableBackend instances constructed so far

propVars == <<procEnv, objects>>

VARIABLES
    cmd                \* the runCommand call: its child, timer and promise

vars == <<storeVars, regVars, propVars, cmd>>

\* no runCommand call yet. timer: "none", "armed", "cleared", "fired";
\* promise: pending, or what the first resolve or reject gave it. History:
\* `first` is the event that came first, `sentOut` and `sentErr` are the
\* chunks the child wrote, `events` counts the child's events, `closed`
\* tells that the child has closed, `lateKills` counts the SIGKILLs sent
\* after that, `settled` counts the calls of resolve or reject that found
\* the promise pending
NoCommand ==
    [pc |-> "idle", timeoutMs |-> 0, timer |-> "none", stdout |-> <<>>,
     stderr |-> <<>>, promise |-> [state |-> "pending"], kills |-> 0,
     first |-> "none", sentOut |-> <<>>, sentErr |-> <<>>, events |-> 0,
     closed |-> FALSE, lateKills |-> 0, settled |-> 0, code |-> 0]

\* the 32 bytes KEYRING_FILE_MASTER_KEY decodes to; generated keys are 1, 2, ...
EnvMasterKey == 0

NoResult == [kind |-> "pending", v |-> <<>>, user |-> <<>>, err |-> ""]
Thrown(err) == [kind |-> "error", v |-> <<>>, user |-> <<>>, err |-> err]
ReturnedVoid == [kind |-> "void", v |-> <<>>, user |-> <<>>, err |-> ""]
ReturnedNull == [kind |-> "null", v |-> <<>>, user |-> <<>>, err |-> ""]
\* a returned password: kind is "string", or "objectPrototype" when the
\* property read yields an inherited object instead of a stored string
ReturnedValue(x) == [kind |-> x.kind, v |-> x.v, user |-> <<>>, err |-> ""]
ReturnedCredential(username, x) ==
    [kind |-> "credential:" \o x.kind, v |-> x.v, user |-> username, err |-> ""]

QuietNone == [svc |-> <<>>, acc |-> <<>>, pw |-> <<>>]

IdleLoc ==
    [pc |-> "idle", op |-> "none", svc |-> <<>>, acc |-> <<>>, pw |-> <<>>,
     stage |-> "none", phase |-> "none", data |-> NoFile, key |-> -1,
     user |-> <<>>, store |-> <<>>, buf |-> NoFile, out |-> NoResult,
     io |-> FALSE, alone |-> FALSE, expect |-> <<>>, order |-> 0,
     listed |-> <<>>]

Fail(l, err) == [l EXCEPT !.pc = "done", !.out = Thrown(err)]
Finish(l, out) == [l EXCEPT !.pc = "done", !.out = out]

\* a read that takes the first password of the service, whatever the account
PasswordOfFirstAccount(store, service, account) ==
    LET entry == JsGetObject(store, service) IN
    IF entry.kind # "object" \/ entry.v = <<>> THEN JsNull
    ELSE JsString(entry.v[1].v)

\* store[service]?.[account] ?? null
PasswordOf(store, service, account) ==
    LET entry == JsGetObject(store, service) IN
    IF entry.kind # "object" THEN JsNull
    ELSE LET x == JsGetString(entry.v, account) IN
         IF x.kind = "undefined" THEN JsNull ELSE x

\* setPassword, between readStore and writeStore
Upsert(store, service, account, password) ==
    LET found == JsGetObject(store, service)
        serviceEntry == IF found.kind = "object" THEN found.v ELSE <<>>
    IN DefineOwn(store, service, JsAssignString(serviceEntry, account, password))

\* deletePassword: the pair is there when store[service] is truthy and
\* (account in serviceEntry)
PairPresent(store, service, account) ==
    LET found == JsGetObject(store, service) IN
    found.kind = "object" /\ JsIn(found.v, account)

\* deletePassword, between the presence test and writeStore
Remove(store, service, account) ==
    LET serviceEntry == JsDelete(JsGetObject(store, service).v, account) IN
    IF Len(ObjectKeys(serviceEntry)) = 0
    THEN JsDelete(store, service)
    ELSE DefineOwn(store, service, serviceEntry)

\* lookupUsernames
lookupUsernames(store, service) ==
    LET found == JsGetObject(store, service) IN
    IF found.kind = "object" THEN ObjectKeys(found.v) ELSE <<>>

\* getPassword up to its first await: "" or the error class thrown
ValidateGet(service, account) ==
    IF IdentifierVerdict[service] # "" THEN IdentifierVerdict[service]
    ELSE IdentifierVerdict[account]

\* setPassword up to its first await
ValidateSet(service, account, password) ==
    IF ValidateGet(service, account) # "" THEN ValidateGet(service, account)
    ELSE PasswordVerdict[password]

\* the value a getPassword-like read returns for the decoded store
ReadResult(l, store) ==
    LET x == PasswordOf(store, l.svc, l.user) IN
    IF l.op = "getPassword"
    THEN (IF x.kind = "null" THEN ReturnedNull ELSE ReturnedValue(x))
    ELSE (IF x.kind = "null" THEN ReturnedNull
          ELSE ReturnedCredential(l.user, x))

\* what the caller does once readStore has returned `store`
AfterReadStore(l, store) ==
    CASE l.op = "getPassword" -> Finish(l, ReadResult(l, store))
      [] l.op = "getCredential" /\ l.stage = "fetch" ->
            Finish(l, ReadResult(l, store))
      [] l.op = "getCredential" /\ l.stage = "lookup" ->
            LET usernames == lookupUsernames(store, l.svc) IN
            IF usernames = <<>> \/ usernames[1] = EmptyString
            THEN Finish(l, ReturnedNull)
            ELSE IF ValidateGet(l.svc, usernames[1]) # ""
                 THEN Fail(l, ValidateGet(l.svc, usernames[1]))
                 ELSE [l EXCEPT !.user = usernames[1], !.stage = "fetch",
                                !.pc = "read", !.listed = usernames]
      [] l.op = "setPassword" ->
            [l EXCEPT !.store = Upsert(store, l.svc, l.acc, l.pw),
                      !.phase = "enc", !.pc = "keyread"]
      [] l.op = "deletePassword" ->
            IF ~PairPresent(store, l.svc, l.acc)
            THEN Fail(l, "PasswordDeleteError")
            ELSE [l EXCEPT !.store = Remove(store, l.svc, l.acc),
                           !.phase = "enc", !.pc = "keyread"]

\* decryptStore without the comparison of the authentication tag
decryptStoreUnauthenticated(data, key) ==
    LET parsed == JSONparse(Decrypt(key, data.iv, data.encrypted)) IN
    IF parsed.ok THEN [ok |-> TRUE, val |-> parsed.val, err |-> ""]
    ELSE [ok |-> FALSE, val |-> <<>>, err |-> "SyntaxError"]

\* decryptStore after the version test, with the key in hand
decryptStore(data, key) ==
    IF data.authTag # AuthTag(key, data.iv, data.encrypted)
    THEN [ok |-> FALSE, val |-> <<>>, err |-> "AuthError"]
    ELSE LET parsed == JSONparse(Decrypt(key, data.iv, data.encrypted)) IN
         IF parsed.ok THEN [ok |-> TRUE, val |-> parsed.val, err |-> ""]
         ELSE [ok |-> FALSE, val |-> <<>>, err |-> "SyntaxError"]

\* an encryptStore that uses one nonce for every write
encryptStoreFixedNonce(store, key, iv) ==
    LET encrypted == Encrypt(key, 0, JSONstringify(store)) IN
    Envelope(FormatVersion, 0, AuthTag(key, 0, encrypted), encrypted)

\* encryptStore with the key and the fresh nonce in hand
encryptStore(store, key, iv) ==
    LET encrypted == Encrypt(key, iv, JSONstringify(store)) IN
    Envelope(FormatVersion, iv, AuthTag(key, iv, encrypted), encrypted)

\* getKeyMaterial has returned `key`: decryptStore or encryptStore goes on
HaveKey(l, key, iv) ==
    IF l.phase = "dec"
    THEN LET d == decryptStore(l.data, key) IN
         IF d.ok THEN AfterReadStore([l EXCEPT !.key = key], d.val)
         ELSE Fail([l EXCEPT !.key = key], d.err)
    ELSE [l EXCEPT !.key = key, !.buf = encryptStore(l.store, key, iv),
                   !.pc = "tmpopen"]

Quiescent(p) == \A q \in Procs \ {p} : loc[q].pc \in {"idle", "done", "crashed"}

\* every call starts a new stretch of history: `alone` tells that no other
\* call has overlapped this one so far
StartCall(p, l) ==
    /\ loc' = [q \in Procs |->
                IF q = p THEN [l EXCEPT !.alone = Quiescent(p)]
                ELSE [loc[q] EXCEPT !.expect = <<>>, !.alone = FALSE]]
    /\ quietSet' = QuietNone
    /\ calls < MaxCalls
    /\ calls' = calls + 1

\* getPassword(service, account) up to its first await
GetPasswordCall(p) ==
    \E in \in GetInputs(p) :
        /\ loc[p].pc = "idle"
        /\ LET s == in[1]
               a == in[2]
               l == [IdleLoc EXCEPT !.op = "getPassword", !.svc = s, !.acc = a,
                        !.user = a, !.stage = "main",
                        !.expect = IF quietSet.svc = s /\ quietSet.acc = a
                                   THEN quietSet.pw ELSE <<>>]
           IN StartCall(p, IF ValidateGet(s, a) # ""
                           THEN Fail(l, ValidateGet(s, a))
                           ELSE [l EXCEPT !.pc = "read"])
        /\ UNCHANGED <<regVars, propVars, cmd, storeFile, keyFile, tmpFile, envKey,
                       keysDrawn, noncesDrawn>>

\* setPassword(service, account, password) up to its first await
SetPasswordCall(p) ==
    \E in \in SetInputs(p) :
        /\ loc[p].pc = "idle"
        /\ LET s == in[1]
               a == in[2]
               pw == in[3]
               l == [IdleLoc EXCEPT !.op = "setPassword", !.svc = s, !.acc = a,
                        !.user = a, !.pw = pw, !.stage = "main"]
           IN StartCall(p, IF ValidateSet(s, a, pw) # ""
                           THEN Fail(l, ValidateSet(s, a, pw))
                           ELSE [l EXCEPT !.pc = "read", !.io = TRUE])
        /\ UNCHANGED <<regVars, propVars, cmd, storeFile, keyFile, tmpFile, envKey,
                       keysDrawn, noncesDrawn>>

\* deletePassword(service, account) up to its first await
DeletePasswordCall(p) ==
    \E in \in DeleteInputs(p) :
        /\ loc[p].pc = "idle"
        /\ LET s == in[1]
               a == in[2]
               l == [IdleLoc EXCEPT !.op = "deletePassword", !.svc = s,
                        !.acc = a, !.user = a, !.stage = "main"]
           IN StartCall(p, IF ValidateGet(s, a) # ""
                           THEN Fail(l, ValidateGet(s, a))
                           ELSE [l EXCEPT !.pc = "read"])
        /\ UNCHANGED <<regVars, propVars, cmd, storeFile, keyFile, tmpFile, envKey,
                       keysDrawn, noncesDrawn>>

\* getCredential(service, account?) up to its first await
GetCredentialCall(p) ==
    \E in \in CredentialInputs(p) :
        /\ loc[p].pc = "idle"
        /\ LET s == in[1]
               a == in[2]
               l == [IdleLoc EXCEPT !.op = "getCredential", !.svc = s, !.acc = a,
                        !.user = a]
           IN StartCall(p,
                IF a \notin {NoAccount, EmptyString}
                THEN (IF ValidateGet(s, a) # ""
                      THEN Fail(l, ValidateGet(s, a))
                      ELSE [l EXCEPT !.pc = "read", !.stage = "fetch"])
                ELSE [l EXCEPT !.pc = "read", !.stage = "lookup"])
        /\ UNCHANGED <<regVars, propVars, cmd, storeFile, keyFile, tmpFile, envKey,
                       keysDrawn, noncesDrawn>>

\* readStore: fs.readFile(file), then decryptStore up to getKeyMaterial
ReadStoreFile(p) ==
    /\ loc[p].pc = "read"
    /\ LET l == [loc[p] EXCEPT !.data = storeFile, !.io = TRUE] IN
       \/ /\ storeFile.kind = "absent"
          /\ loc' = [loc EXCEPT ![p] = AfterReadStore(l, <<>>)]
       \/ /\ storeFile.kind = "partial"
          /\ \E err \in {"KeyringError", "AuthError"} :
                loc' = [loc EXCEPT ![p] = Fail(l, err)]
       \/ /\ storeFile.kind = "envelope"
          /\ loc' = [loc EXCEPT ![p] =
                IF storeFile.version # FormatVersion
                THEN Fail(l, "KeyringError")
                ELSE [l EXCEPT !.phase = "dec", !.pc = "keyread"]]
    /\ UNCHANGED <<regVars, propVars, cmd, storeFile, keyFile, tmpFile, envKey, keysDrawn, noncesDrawn,
                   calls, quietSet>>

\* getKeyMaterial: the environment key, or fs.readFile(keyFile)
ReadKeyFile(p) ==
    /\ loc[p].pc = "keyread"
    /\ LET l == loc[p]
           lio == [l EXCEPT !.io = TRUE]
           drawsNonce == l.phase = "enc"
       IN
       \/ /\ envKey = "short"
          /\ loc' = [loc EXCEPT ![p] = Fail(l, "KeyringError")]
          /\ UNCHANGED <<keysDrawn, noncesDrawn>>
       \/ /\ envKey = "valid"
          /\ drawsNonce => noncesDrawn < MaxNonce
          /\ loc' = [loc EXCEPT ![p] = HaveKey(l, EnvMasterKey, noncesDrawn + 1)]
          /\ noncesDrawn' = IF drawsNonce THEN noncesDrawn + 1 ELSE noncesDrawn
          /\ UNCHANGED keysDrawn
       \/ /\ envKey = "unset"
          /\ keyFile.kind = "key"
          /\ drawsNonce => noncesDrawn < MaxNonce
          /\ loc' = [loc EXCEPT ![p] = HaveKey(lio, keyFile.key, noncesDrawn + 1)]
          /\ noncesDrawn' = IF drawsNonce THEN noncesDrawn + 1 ELSE noncesDrawn
          /\ UNCHANGED keysDrawn
       \/ /\ envKey = "unset"
          /\ keyFile.kind = "partial"
          /\ loc' = [loc EXCEPT ![p] = Fail(lio, "KeyringError")]
          /\ UNCHANGED <<keysDrawn, noncesDrawn>>
       \/ /\ envKey = "unset"
          /\ keyFile.kind = "absent"
          /\ keysDrawn < MaxKeys
          /\ loc' = [loc EXCEPT ![p] = [lio EXCEPT !.key = keysDrawn + 1,
                                                   !.pc = "keyopen"]]
          /\ keysDrawn' = keysDrawn + 1
          /\ UNCHANGED noncesDrawn
    /\ UNCHANGED <<regVars, propVars, cmd, storeFile, keyFile, tmpFile, envKey, calls,
                   quietSet>>

\* getKeyMaterial: ensureDir, then fs.writeFile(keyFile) opens the file
KeyFileOpen(p) ==
    /\ loc[p].pc = "keyopen"
    /\ keyFile' = PartialFile
    /\ loc' = [loc EXCEPT ![p].pc = "keywrite"]
    /\ UNCHANGED <<regVars, propVars, cmd, storeFile, tmpFile, envKey, keysDrawn,
                   noncesDrawn, calls, quietSet>>

\* getKeyMaterial: fs.writeFile(keyFile) completes and the key is returned
KeyFileWritten(p) ==
    /\ loc[p].pc = "keywrite"
    /\ loc[p].phase = "enc" => noncesDrawn < MaxNonce
    /\ keyFile' = KeyBytes(loc[p].key)
    /\ loc' = [loc EXCEPT ![p] = HaveKey(loc[p], loc[p].key, noncesDrawn + 1)]
    /\ noncesDrawn' = IF loc[p].phase = "enc" THEN noncesDrawn + 1
                      ELSE noncesDrawn
    /\ UNCHANGED <<regVars, propVars, cmd, storeFile, tmpFile, envKey, keysDrawn, calls,
                   quietSet>>

\* atomicWrite opening the destination itself instead of a temporary file
TmpFileOpenInPlace(p) ==
    /\ loc[p].pc = "tmpopen"
    /\ storeFile' = PartialFile
    /\ loc' = [loc EXCEPT ![p].pc = "tmpwrite"]
    /\ UNCHANGED <<regVars, propVars, cmd, tmpFile, keyFile, envKey, keysDrawn, noncesDrawn,
                   calls, quietSet>>

\* atomicWrite: ensureDir, then fs.writeFile(tmp) creates the temporary file
TmpFileOpen(p) ==
    /\ loc[p].pc = "tmpopen"
    /\ tmpFile' = [tmpFile EXCEPT ![p] = PartialFile]
    /\ loc' = [loc EXCEPT ![p].pc = "tmpwrite"]
    /\ UNCHANGED <<regVars, propVars, cmd, storeFile, keyFile, envKey, keysDrawn,
                   noncesDrawn, calls, quietSet>>

\* atomicWrite: fs.writeFile(tmp) completes
TmpFileWritten(p) ==
    /\ loc[p].pc = "tmpwrite"
    /\ tmpFile' = [tmpFile EXCEPT ![p] = loc[p].buf]
    /\ loc' = [loc EXCEPT ![p].pc = "rename"]
    /\ UNCHANGED <<regVars, propVars, cmd, storeFile, keyFile, envKey, keysDrawn,
                   noncesDrawn, calls, quietSet>>

\* a rename that does not replace a file that is there
atomicWriteRenameNoReplace(file, tmp) ==
    IF file.kind = "absent" THEN [file |-> tmp, tmp |-> NoFile]
    ELSE [file |-> file, tmp |-> NoFile]

\* what fs.rename(tmp, file) leaves at the two paths
atomicWriteRename(file, tmp) == [file |-> tmp, tmp |-> NoFile]

\* history: the place in the order of renames of the latest rename among
\* the calls on record
RenamesSeen ==
    LET orders == {loc[q].order : q \in Procs} IN
    CHOOSE n \in orders : \A k \in orders : k <= n

\* atomicWrite: fs.rename(tmp, file); setPassword / deletePassword return
RenameTmpFile(p) ==
    /\ loc[p].pc = "rename"
    /\ storeFile' = atomicWriteRename(storeFile, tmpFile[p]).file
    /\ tmpFile' = [tmpFile EXCEPT ![p] = atomicWriteRename(storeFile, tmpFile[p]).tmp]
    /\ loc' = [loc EXCEPT ![p] =
            Finish([loc[p] EXCEPT !.order = RenamesSeen + 1], ReturnedVoid)]
    /\ quietSet' = IF loc[p].op = "setPassword" /\ loc[p].alone
                   THEN [svc |-> loc[p].svc, acc |-> loc[p].acc, pw |-> loc[p].pw]
                   ELSE QuietNone
    /\ UNCHANGED <<regVars, propVars, cmd, keyFile, envKey, keysDrawn, noncesDrawn, calls>>

\* the caller has consumed the outcome of its call
Return(p) ==
    /\ loc[p].pc = "done"
    /\ loc' = [loc EXCEPT ![p] = IdleLoc]
    /\ UNCHANGED <<regVars, propVars, cmd, storeFile, keyFile, tmpFile, envKey, keysDrawn, noncesDrawn,
                   calls, quietSet>>

\* the process running the call dies with a write to the file system begun
\* or about to begin
Crash(p) ==
    /\ loc[p].pc \in {"keywrite", "tmpopen", "tmpwrite", "rename"}
    /\ loc' = [loc EXCEPT ![p].pc = "crashed"]
    /\ UNCHANGED <<regVars, propVars, cmd, storeFile, keyFile, tmpFile, envKey, keysDrawn, noncesDrawn,
                   calls, quietSet>>

\* ---- the environment alters the store file behind the program's back ----
Interfere ==
    /\ quietSet' = QuietNone
    /\ loc' = [q \in Procs |-> [loc[q] EXCEPT !.expect = <<>>, !.alone = FALSE]]
    /\ UNCHANGED <<regVars, propVars, cmd, keyFile, tmpFile, envKey, keysDrawn, noncesDrawn,
                   calls>>

Intact == storeFile.kind = "envelope" /\ storeFile.tamper = "none"

\* a bit of byte 0 is flipped
FlipVersionBit ==
    /\ Intact
    /\ storeFile' = [storeFile EXCEPT !.version = 0, !.tamper = "version"]
    /\ Interfere

\* a bit of the nonce is flipped
FlipNonceBit ==
    /\ Intact
    /\ storeFile' = [storeFile EXCEPT !.iv = 0 - storeFile.iv, !.tamper = "iv"]
    /\ Interfere

\* a bit of the authentication tag is flipped
FlipTagBit ==
    /\ Intact
    /\ storeFile' = [storeFile EXCEPT !.authTag.n = 0 - storeFile.authTag.n,
                                      !.tamper = "tag"]
    /\ Interfere

\* the plaintext with the lowest bit of its first password character flipped
\* ("p" <-> "q"), or, when it holds no password, with its first byte flipped
FlipPlaintextBit(text) ==
    LET hits == {i \in 1..Len(text) : text[i] \in {StrTok(PwP), StrTok(PwQ)}} IN
    IF hits = {} THEN [text EXCEPT ![1] = [t |-> "garbage", s |-> <<>>]]
    ELSE LET i == CHOOSE j \in hits : \A k \in hits : j <= k IN
         [text EXCEPT ![i] = IF text[i] = StrTok(PwP) THEN StrTok(PwQ)
                             ELSE StrTok(PwP)]

\* a bit of the ciphertext is flipped: under a stream cipher the same bit of
\* the plaintext flips
FlipCiphertextBit ==
    /\ Intact
    /\ storeFile' = [storeFile EXCEPT
            !.encrypted.body = FlipPlaintextBit(storeFile.encrypted.body),
            !.tamper = "ciphertext"]
    /\ Interfere

\* a holder of the key replaces the store by an authentic envelope whose
\* plaintext is no JSON text (the closing brace is missing)
WriteMalformedJson ==
    /\ Intact
    /\ LET key == storeFile.encrypted.k
           iv == storeFile.iv
           text == SubSeq(storeFile.encrypted.body, 1,
                          Len(storeFile.encrypted.body) - 1)
           encrypted == Encrypt(key, iv, text)
       IN storeFile' = [Envelope(FormatVersion, iv, AuthTag(key, iv, encrypted),
                                 encrypted) EXCEPT !.tamper = "json"]
    /\ Interfere

StoreNext ==
    \/ \E p \in Procs :
        \/ GetPasswordCall(p)
        \/ SetPasswordCall(p)
        \/ DeletePasswordCall(p)
        \/ GetCredentialCall(p)
        \/ ReadStoreFile(p)
        \/ ReadKeyFile(p)
        \/ KeyFileOpen(p)
        \/ KeyFileWritten(p)
        \/ TmpFileOpen(p)
        \/ TmpFileWritten(p)
        \/ RenameTmpFile(p)
        \/ Return(p)
        \/ Crash(p)
    \/ FlipVersionBit
    \/ FlipNonceBit
    \/ FlipTagBit
    \/ FlipCiphertextBit
    \/ WriteMalformedJson

TypeOKStore == \A p \in Procs : loc[p].pc \in
    {"idle", "read", "keyread", "keyopen", "keywrite", "tmpopen", "tmpwrite",
     "rename", "done", "crashed"}


\* ------------------------------------------------- claims on the file store

\* C1: a getPassword(service, account) that directly follows a successful
\* setPassword(service, account, password), nothing else having run on the
\* store in between, returns exactly password.
C1_RoundTrip ==
    \A p \in Procs :
        (loc[p].pc = "done" /\ loc[p].op = "getPassword" /\ loc[p].expect # <<>>)
        => loc[p].out = ReturnedValue(JsString(loc[p].expect))

\* the same law for the accounts that are no inherited property name
RoundTripOwnNames ==
    \A p \in Procs :
        (loc[p].pc = "done" /\ loc[p].op = "getPassword" /\ loc[p].expect # <<>>
         /\ loc[p].acc # ProtoKey)
        => loc[p].out = ReturnedValue(JsString(loc[p].expect))

InvalidArguments(l) ==
    \/ IdentifierVerdict[l.svc] # ""
    \/ l.acc # NoAccount /\ IdentifierVerdict[l.acc] # ""

\* C2: a getPassword, setPassword, deletePassword or getCredential call whose
\* service or supplied account is invalid touches no file and fails with
\* KeyringError.
C2_ValidationBeforeIO ==
    \A p \in Procs :
        (loc[p].op # "none" /\ InvalidArguments(loc[p]))
        => /\ ~loc[p].io
           /\ loc[p].pc = "done" => loc[p].out = Thrown("KeyringError")

\* C3: a getPassword that finds no store file returns null; one that reads a
\* store file altered after it was written (a flipped bit in the version,
\* nonce, tag or ciphertext, or a plaintext that is no JSON) fails with an
\* error, so it returns neither null nor any password.
C3_ReadPathFailsHard ==
    \A p \in Procs :
        (loc[p].pc = "done" /\ loc[p].op = "getPassword" /\ loc[p].io)
        => /\ loc[p].data.kind = "absent" => loc[p].out = ReturnedNull
           /\ (loc[p].data.kind = "envelope" /\ loc[p].data.tamper # "none")
              => loc[p].out.kind = "error"

C3_Witness ==
    \E p \in Procs :
        /\ loc[p].pc = "done" /\ loc[p].op = "getPassword"
        /\ loc[p].data.kind = "envelope" /\ loc[p].data.tamper = "ciphertext"
        /\ JSONparse(loc[p].data.encrypted.body).ok
        /\ loc[p].out.kind = "error"

\* an envelope as encryptStore builds it: version 1, a tag that authenticates
\* nonce and ciphertext, a ciphertext that hides a JSON text
CompleteEnvelope(f) ==
    /\ f.kind = "envelope"
    /\ f.version = FormatVersion
    /\ f.encrypted.n = f.iv
    /\ f.authTag = AuthTag(f.encrypted.k, f.iv, f.encrypted)
    /\ JSONparse(f.encrypted.body).ok

Untouched(f) == f.kind = "envelope" => f.tamper = "none"

\* C4: as long as nobody alters the file behind the program's back, the store
\* path holds no file or one complete envelope at every instant, also after
\* a crash inside atomicWrite; what a reader got from the store path is
\* likewise nothing or a complete envelope, and a reader that finished with
\* the key of that envelope returned what the envelope's map holds.
C4_AtomicStoreWrite ==
    /\ Untouched(storeFile)
       => (storeFile.kind = "absent" \/ CompleteEnvelope(storeFile))
    /\ \A p \in Procs :
          (loc[p].pc # "idle" /\ Untouched(loc[p].data))
          => /\ loc[p].data.kind = "absent" \/ CompleteEnvelope(loc[p].data)
             /\ (/\ loc[p].pc = "done"
                 /\ loc[p].op = "getPassword"
                 /\ loc[p].data.kind = "envelope"
                 /\ loc[p].key = loc[p].data.encrypted.k)
                => loc[p].out =
                     ReadResult(loc[p], JSONparse(loc[p].data.encrypted.body).val)

\* a writer died inside fs.writeFile(tmp) and the store path still holds the
\* complete envelope the other caller's setPassword put there
C4_Witness ==
    \E p, q \in Procs :
        /\ loc[p].pc = "crashed" /\ tmpFile[p].kind = "partial"
        /\ loc[p].data.kind = "envelope"
        /\ CompleteEnvelope(storeFile) /\ storeFile.tamper = "none"
        /\ loc[q].pc = "done" /\ loc[q].op = "setPassword"
        /\ loc[q].out = ReturnedVoid

AllQuiet == \A p \in Procs : loc[p].pc \in {"idle", "done"}

\* C5: without a master key in the environment, once every call has run to
\* its end the envelope on disk decrypts with the key on disk.
C5_EnvelopeDecryptsWithKeyOnDisk ==
    (envKey = "unset" /\ AllQuiet /\ storeFile.kind = "envelope"
     /\ storeFile.tamper = "none")
    => /\ keyFile.kind = "key"
       /\ decryptStore(storeFile, keyFile.key).ok


\* ------------------------------------------------------------ the registry
Tasks == {"t1", "t2"}

MaxRegistryCalls == 3    \* calls of the registry started in a run

\* a backend class: its id, its priority in tenths, the platforms on which
\* its static isSupported() answers true (hasProbe tells whether the class
\* has the method at all; probe tells whether the method answers or its
\* promise rejects), and what its constructor does
NativeKeychainBackend ==
    [cls |-> "NativeKeychainBackend", id |-> "native-macos", priority |-> 100,
     hasProbe |-> TRUE, supportedOn |-> {"darwin"}, ctor |-> "ok", probe |-> "answers"]
MacOSKeychainBackend ==
    [cls |-> "MacOSKeychainBackend", id |-> "macos", priority |-> 50,
     hasProbe |-> TRUE, supportedOn |-> {"darwin"}, ctor |-> "ok", probe |-> "answers"]
SecretServiceBackend ==
    [cls |-> "SecretServiceBackend", id |-> "secret-service", priority |-> 48,
     hasProbe |-> TRUE, supportedOn |-> {"linux"}, ctor |-> "ok", probe |-> "answers"]
WindowsCredentialBackend ==
    [cls |-> "WindowsCredentialBackend", id |-> "windows", priority |-> 50,
     hasProbe |-> TRUE, supportedOn |-> {"win32"}, ctor |-> "ok", probe |-> "answers"]
FileSystemBackend ==
    [cls |-> "FileSystemBackend", id |-> "file", priority |-> 5,
     hasProbe |-> FALSE, supportedOn |-> {}, ctor |-> "ok", probe |-> "answers"]
NullBackend ==
    [cls |-> "NullBackend", id |-> "null", priority |-> -10,
     hasProbe |-> FALSE, supportedOn |-> {}, ctor |-> "ok", probe |-> "answers"]

BuiltinFactories ==
    <<NativeKeychainBackend, MacOSKeychainBackend, SecretServiceBackend,
      WindowsCredentialBackend, FileSystemBackend, NullBackend>>

\* a class an application registers, as good as the native backend
RivalBackend ==
    [cls |-> "RivalBackend", id |-> "rival", priority |-> 100,
     hasProbe |-> FALSE, supportedOn |-> {}, ctor |-> "ok", probe |-> "answers"]
Registerable == {RivalBackend}

\* classes whose construction fails, with InitError and with another error,
\* and a class whose isSupported() rejects
ThrowingBackend ==
    [cls |-> "ThrowingBackend", id |-> "throw", priority |-> 10,
     hasProbe |-> FALSE, supportedOn |-> {}, ctor |-> "InitError",
     probe |-> "answers"]
ExplodingBackend ==
    [cls |-> "ExplodingBackend", id |-> "explode", priority |-> 0,
     hasProbe |-> FALSE, supportedOn |-> {}, ctor |-> "Error",
     probe |-> "answers"]
FlakyProbeBackend ==
    [cls |-> "FlakyProbeBackend", id |-> "flaky", priority |-> 10,
     hasProbe |-> TRUE, supportedOn |-> {"darwin", "linux"}, ctor |-> "ok",
     probe |-> "rejects"]
Faulty == {ThrowingBackend, ExplodingBackend, FlakyProbeBackend}

Platforms == {"darwin", "linux"}
EnvValues == {"", "file", "ghost"}

\* a backend instance; n tells the construction round it came from, so that
\* two instances of one class are told apart
NoBackend == [id |-> "", priority |-> 0, cls |-> "", n |-> 0, props |-> "none"]
Instance(factory, n) ==
    [id |-> factory.id, priority |-> factory.priority, cls |-> factory.cls,
     n |-> n, props |-> "none"]
UserBackend == [id |-> "user", priority |-> 0, cls |-> "UserBackend", n |-> 0,
                props |-> "none"]

\* the BackendLimit a caller passes: none, or (b) => b.id === "macos", which
\* accepts one backend on darwin and none on linux
Limits == {"undefined", "onlyMacos"}
LimitAccepts(limit, backend) ==
    CASE limit = "undefined" -> TRUE
      [] limit = "onlyMacos" -> backend.id = "macos"

\* what readConfig finds
Config(kind, defaultBackend, hasProperties) ==
    [kind |-> kind, defaultBackend |-> defaultBackend,
     hasProperties |-> hasProperties]
ConfigStates ==
    {Config("ENOENT", "", FALSE), Config("malformed", "", FALSE),
     Config("json", "", FALSE), Config("json", "file", TRUE),
     Config("json", "ghost", FALSE)}

\* the settings a run starts in: every config file when the variable is
\* unset, and a malformed or a usable one when it is set
Settings ==
    {<<"", c>> : c \in ConfigStates} \cup
    {<<e, c>> : e \in EnvValues \ {""},
                c \in {Config("malformed", "", FALSE),
                        Config("json", "file", TRUE)}}

NoCache == [set |-> FALSE, list |-> <<>>, from |-> <<>>]

NoRegResult == [kind |-> "pending", err |-> "", backend |-> NoBackend,
                list |-> <<>>]
Rejected(err) == [NoRegResult EXCEPT !.kind = "error", !.err = err]
ResolvedVoid == [NoRegResult EXCEPT !.kind = "void"]
ResolvedNull == [NoRegResult EXCEPT !.kind = "null"]
ResolvedBackend(b) == [NoRegResult EXCEPT !.kind = "backend", !.backend = b]
ResolvedList(list) == [NoRegResult EXCEPT !.kind = "list", !.list = list]

IdleTask ==
    [pc |-> "idle", op |-> "none", limit |-> "undefined", id |-> "",
     over |-> FALSE, k |-> 0, stage |-> "none", snapshot |-> <<>>,
     asked |-> <<>>, list |-> <<>>, from |-> <<>>, got |-> FALSE,
     cfgList |-> <<>>, cfgGot |-> FALSE, chosen |-> NoBackend,
     source |-> "none", cfgRead |-> FALSE, detected |-> FALSE,
     wrote |-> FALSE, cfgAtCall |-> Config("ENOENT", "", FALSE),
     out |-> NoRegResult]

Settle(l, out) == [l EXCEPT !.pc = "done", !.out = out]

\* instantiate that returns null whatever the constructor throws
instantiateAbsorbAll(factory, n) ==
    IF factory.hasProbe /\ factory.probe = "rejects"
    THEN [r |-> "throw", b |-> NoBackend, err |-> "ProbeError"]
    ELSE IF factory.hasProbe /\ platform \notin factory.supportedOn
    THEN [r |-> "null", b |-> NoBackend, err |-> ""]
    ELSE IF factory.ctor = "ok"
    THEN [r |-> "instance", b |-> Instance(factory, n), err |-> ""]
    ELSE [r |-> "null", b |-> NoBackend, err |-> ""]

\* instantiate(factory): null, an instance, or the error the probe or the
\* constructor threw
instantiate(factory, n) ==
    IF factory.hasProbe /\ factory.probe = "rejects"
    THEN [r |-> "throw", b |-> NoBackend, err |-> "ProbeError"]
    ELSE IF factory.hasProbe /\ platform \notin factory.supportedOn
    THEN [r |-> "null", b |-> NoBackend, err |-> ""]
    ELSE CASE factory.ctor = "ok" ->
                [r |-> "instance", b |-> Instance(factory, n), err |-> ""]
           [] factory.ctor = "InitError" ->
                [r |-> "null", b |-> NoBackend, err |-> ""]
           [] OTHER -> [r |-> "throw", b |-> NoBackend, err |-> factory.ctor]

\* the rejection Promise.all settles with: the promises that are rejected
\* when instantiate returns (no probe awaited) come first, in list order,
\* then those rejected after the await of a probe
FirstRejection(snapshot, results) ==
    LET thrown == {i \in 1..Len(results) : results[i].r = "throw"}
        early == {i \in thrown : ~snapshot[i].hasProbe}
        from == IF early # {} THEN early ELSE thrown
    IN results[CHOOSE i \in from : \A j \in from : i <= j].err

\* ConfigurableBackend.withProperties: a new instance of the same class
withProperties(backend, n) == [backend EXCEPT !.n = n, !.props = "overrides"]

\* loadBackendById without the test of the limit
loadBackendByIdUnlimited(all, backendId, limit, overrides, n) ==
    LET hits == {i \in 1..Len(all) : all[i].id = backendId} IN
    IF hits = {} THEN NoBackend
    ELSE LET backend == all[CHOOSE i \in hits : \A j \in hits : i <= j] IN
         IF overrides THEN withProperties(backend, n) ELSE backend

\* loadBackendById once getAllBackends has resolved with `all`
loadBackendById(all, backendId, limit, overrides, n) ==
    LET hits == {i \in 1..Len(all) : all[i].id = backendId} IN
    IF hits = {} THEN NoBackend
    ELSE LET backend == all[CHOOSE i \in hits : \A j \in hits : i <= j] IN
         IF limit # "undefined" /\ ~LimitAccepts(limit, backend) THEN NoBackend
         ELSE IF overrides THEN withProperties(backend, n)
         ELSE backend

\* the callback with >= in place of >
PreferLast(selected, candidate) ==
    IF candidate.priority >= selected.priority THEN candidate ELSE selected

\* the callback of the reduce in detectBackend
Prefer(selected, candidate) ==
    IF candidate.priority > selected.priority THEN candidate ELSE selected

RECURSIVE Reduce(_, _, _)
Reduce(seq, i, selected) ==
    IF i > Len(seq) THEN selected
    ELSE Reduce(seq, i + 1, Prefer(selected, seq[i]))

\* detectBackend once getAllBackends has resolved with `backends`
detectBackend(backends, limit, n) ==
    LET filtered == IF limit # "undefined"
                    THEN SelectSeq(backends, LAMBDA b : LimitAccepts(limit, b))
                    ELSE backends
    IN IF Len(filtered) = 0 THEN Instance(NullBackend, n)
       ELSE Reduce(filtered, 2, filtered[1])

\* initBackend asking the config file before the environment variable
SourceOrderConfigFirst == <<"config", "env", "detect">>

\* the order in which initBackend asks its three sources
SourceOrder == <<"env", "config", "detect">>

\* getAllBackends up to its await: the cached list, or a construction round
\* over the factory list as it is now
StartGetAll(l, stage) ==
    IF cachedBackends.set
    THEN [l EXCEPT !.pc = "have_list", !.stage = stage,
                   !.asked = builtinFactories, !.list = cachedBackends.list,
                   !.from = cachedBackends.from, !.got = TRUE]
    ELSE [l EXCEPT !.pc = "await_list", !.stage = stage,
                   !.asked = builtinFactories, !.snapshot = builtinFactories]

\* initBackend turns to its k-th source, up to the first await of that source
Enter(l, k) ==
    LET s == SourceOrder[k] IN
    CASE s = "env" ->
            IF envBackend = "" THEN [l EXCEPT !.pc = "next", !.k = k]
            ELSE StartGetAll([l EXCEPT !.k = k], "env")
      [] s = "config" -> [l EXCEPT !.pc = "config", !.k = k]
      [] s = "detect" -> StartGetAll([l EXCEPT !.k = k, !.detected = TRUE],
                                     "detect")

\* loadBackendFromEnv returning null where it throws
loadBackendFromEnvLenient(l, backend) ==
    IF backend = NoBackend THEN [l EXCEPT !.pc = "next"]
    ELSE [l EXCEPT !.pc = "install", !.chosen = backend, !.source = "env"]

\* loadBackendFromEnv once loadBackendById has resolved with `backend`
loadBackendFromEnv(l, backend) ==
    IF backend = NoBackend THEN Settle(l, Rejected("InitError"))
    ELSE [l EXCEPT !.pc = "install", !.chosen = backend, !.source = "env"]

\* a loadBackendFromConfig that fails like loadBackendFromEnv when the
\* backend it names is not to be had
loadBackendFromConfigStrict(l, backend) ==
    IF backend = NoBackend THEN Settle(l, Rejected("InitError"))
    ELSE [l EXCEPT !.pc = "install", !.chosen = backend, !.source = "config"]

\* loadBackendFromConfig once loadBackendById has resolved with `backend`
loadBackendFromConfig(l, backend) ==
    IF backend = NoBackend THEN [l EXCEPT !.pc = "next"]
    ELSE [l EXCEPT !.pc = "install", !.chosen = backend, !.source = "config"]

\* a caller starts a call when it has none in progress
Free(t) == task[t].pc \in {"idle", "done"}

StartRegCall ==
    /\ regCalls < MaxRegistryCalls
    /\ regCalls' = regCalls + 1

\* what each caller calls: t1 everything, t2 getAllBackends, the call whose
\* overlap with the others the cache depends on
LoadInputs(t) ==
    IF t = "t1"
    THEN {<<"macos", "onlyMacos", TRUE>>, <<"file", "onlyMacos", FALSE>>}
    ELSE {}
InitInputs(t) == IF t = "t1" THEN Limits ELSE {}

\* getAllBackends() up to its await
GetAllBackendsCall(t) ==
    /\ Free(t)
    /\ StartRegCall
    /\ task' = [task EXCEPT ![t] =
            StartGetAll([IdleTask EXCEPT !.op = "getAllBackends"], "getAll")]
    /\ UNCHANGED <<storeVars, propVars, cmd, builtinFactories, cachedBackends, activeBackend,
                   backendLimit, envBackend, configFile, platform, instances>>

\* loadBackendById(backendId, limit, overrides) up to its await
LoadBackendByIdCall(t) ==
    \E in \in LoadInputs(t) :
        /\ Free(t)
        /\ StartRegCall
        /\ task' = [task EXCEPT ![t] =
                StartGetAll([IdleTask EXCEPT !.op = "loadBackendById",
                                             !.id = in[1], !.limit = in[2],
                                             !.over = in[3]], "byId")]
        /\ UNCHANGED <<storeVars, propVars, cmd, builtinFactories, cachedBackends,
                       activeBackend, backendLimit, envBackend, configFile,
                       platform, instances>>

\* initBackend(limit) up to its first await
InitBackendCall(t) ==
    \E limit \in InitInputs(t) :
        /\ Free(t)
        /\ StartRegCall
        /\ backendLimit' = limit
        /\ task' = [task EXCEPT ![t] =
                Enter([IdleTask EXCEPT !.op = "initBackend", !.limit = limit,
                                       !.cfgAtCall = configFile], 1)]
        /\ UNCHANGED <<storeVars, propVars, cmd, builtinFactories, cachedBackends,
                       activeBackend, envBackend, configFile, platform,
                       instances>>

\* getKeyring() without the test of activeBackend
GetKeyringCallNoMemo(t) ==
    /\ Free(t)
    /\ StartRegCall
    /\ task' = [task EXCEPT ![t] =
            Enter([IdleTask EXCEPT !.op = "getKeyring", !.limit = backendLimit,
                             !.cfgAtCall = configFile],
                  1)]
    /\ UNCHANGED <<storeVars, propVars, cmd, builtinFactories, cachedBackends, activeBackend,
                   backendLimit, envBackend, configFile, platform, instances>>

\* getKeyring() up to its first await, or to its return when a backend is
\* installed
GetKeyringCall(t) ==
    /\ Free(t)
    /\ StartRegCall
    /\ LET l == [IdleTask EXCEPT !.op = "getKeyring", !.limit = backendLimit,
                             !.cfgAtCall = configFile] IN
       task' = [task EXCEPT ![t] =
            IF activeBackend # NoBackend
            THEN Settle(l, ResolvedBackend(activeBackend))
            ELSE Enter(l, 1)]
    /\ UNCHANGED <<storeVars, propVars, cmd, builtinFactories, cachedBackends, activeBackend,
                   backendLimit, envBackend, configFile, platform, instances>>

\* getAllBackends after its await: Promise.all over instantiate has settled
PromiseAllSettles(t) ==
    /\ task[t].pc = "await_list"
    /\ LET l == task[t]
           n == instances + 1
           results == [i \in 1..Len(l.snapshot) |-> instantiate(l.snapshot[i], n)]
           kept == SelectSeq(results, LAMBDA r : r.r = "instance")
           list == [i \in 1..Len(kept) |-> kept[i].b]
       IN IF \E i \in 1..Len(results) : results[i].r = "throw"
          THEN /\ task' = [task EXCEPT ![t] =
                    Settle(l, Rejected(FirstRejection(l.snapshot, results)))]
               /\ UNCHANGED cachedBackends
          ELSE /\ cachedBackends' = [set |-> TRUE, list |-> list,
                                     from |-> l.snapshot]
               /\ task' = [task EXCEPT ![t] =
                    [l EXCEPT !.pc = "have_list", !.list = list,
                              !.from = l.snapshot, !.got = TRUE]]
    /\ instances' = instances + 1
    /\ UNCHANGED <<storeVars, propVars, cmd, builtinFactories, activeBackend, backendLimit,
                   envBackend, configFile, platform, regCalls>>

\* the continuation of `await getAllBackends()` in the function that asked
ListResolved(t) ==
    /\ task[t].pc = "have_list"
    /\ LET l == task[t]
           n == instances + 1
           byId == loadBackendById(l.list, l.id, l.limit, l.over, n)
           byEnv == loadBackendById(l.list, envBackend, l.limit, FALSE, n)
           byConfig == loadBackendById(l.list, configFile.defaultBackend,
                                       l.limit, configFile.hasProperties, n)
           detected == detectBackend(l.list, l.limit, n)
           made == CASE l.stage = "byId" -> byId
                     [] l.stage = "env" -> byEnv
                     [] l.stage = "config" -> byConfig
                     [] l.stage = "detect" -> detected
                     [] OTHER -> NoBackend
       IN /\ task' = [task EXCEPT ![t] =
                CASE l.stage = "getAll" -> Settle(l, ResolvedList(l.list))
                  [] l.stage = "byId" ->
                        Settle(l, IF byId = NoBackend THEN ResolvedNull
                                  ELSE ResolvedBackend(byId))
                  [] l.stage = "env" -> loadBackendFromEnv(l, byEnv)
                  [] l.stage = "config" ->
                        loadBackendFromConfig(
                            [l EXCEPT !.cfgList = l.list, !.cfgGot = TRUE],
                            byConfig)
                  [] l.stage = "detect" ->
                        [l EXCEPT !.pc = "install", !.chosen = detected,
                                  !.source = "detect"]]
          /\ instances' = IF made.n = n THEN n ELSE instances
    /\ UNCHANGED <<storeVars, propVars, cmd, builtinFactories, cachedBackends, activeBackend,
                   backendLimit, envBackend, configFile, platform, regCalls>>

\* initBackend: a source has resolved with null and the next one is asked
NextSource(t) ==
    /\ task[t].pc = "next"
    /\ task' = [task EXCEPT ![t] = Enter(task[t], task[t].k + 1)]
    /\ UNCHANGED <<storeVars, propVars, cmd, builtinFactories, cachedBackends, activeBackend,
                   backendLimit, envBackend, configFile, platform, instances,
                   regCalls>>

\* loadBackendFromConfig: readConfig settles
ReadConfig(t) ==
    /\ task[t].pc = "config"
    /\ LET l == [task[t] EXCEPT !.cfgRead = TRUE] IN
       task' = [task EXCEPT ![t] =
            CASE configFile.kind = "ENOENT" -> [l EXCEPT !.pc = "next"]
              [] configFile.kind = "malformed" ->
                    Settle(l, Rejected("SyntaxError"))
              [] configFile.defaultBackend = "" -> [l EXCEPT !.pc = "next"]
              [] OTHER -> StartGetAll(l, "config")]
    /\ UNCHANGED <<storeVars, propVars, cmd, builtinFactories, cachedBackends, activeBackend,
                   backendLimit, envBackend, configFile, platform, instances,
                   regCalls>>

\* initBackend: activeBackend = backend
AssignActive(t) ==
    /\ task[t].pc = "install"
    /\ activeBackend' = task[t].chosen
    /\ task' = [task EXCEPT ![t] =
            IF task[t].op = "getKeyring"
            THEN [task[t] EXCEPT !.pc = "recheck", !.wrote = TRUE]
            ELSE Settle([task[t] EXCEPT !.wrote = TRUE], ResolvedVoid)]
    /\ UNCHANGED <<storeVars, propVars, cmd, builtinFactories, cachedBackends, backendLimit,
                   envBackend, configFile, platform, instances, regCalls>>

\* getKeyring after `await initBackend(backendLimit)`
GetKeyringReturn(t) ==
    /\ task[t].pc = "recheck"
    /\ task' = [task EXCEPT ![t] =
            IF activeBackend = NoBackend
            THEN Settle(task[t], Rejected("NoKeyringError"))
            ELSE Settle(task[t], ResolvedBackend(activeBackend))]
    /\ UNCHANGED <<storeVars, propVars, cmd, builtinFactories, cachedBackends, activeBackend,
                   backendLimit, envBackend, configFile, platform, instances,
                   regCalls>>

registerBackend(factory) ==
    /\ StartRegCall
    /\ builtinFactories' = Append(builtinFactories, factory)
    /\ cachedBackends' = NoCache
    /\ UNCHANGED <<storeVars, propVars, cmd, activeBackend, backendLimit, envBackend,
                   configFile, platform, task, instances>>

setKeyring(backend) ==
    /\ StartRegCall
    /\ activeBackend' = backend
    /\ UNCHANGED <<storeVars, propVars, cmd, builtinFactories, cachedBackends, backendLimit,
                   envBackend, configFile, platform, task, instances>>

resetRegistryForTests ==
    /\ StartRegCall
    /\ cachedBackends' = NoCache
    /\ activeBackend' = NoBackend
    /\ backendLimit' = "undefined"
    /\ UNCHANGED <<storeVars, propVars, cmd, builtinFactories, envBackend, configFile,
                   platform, task, instances>>

RegNext ==
    \/ \E t \in Tasks :
        \/ GetAllBackendsCall(t)
        \/ LoadBackendByIdCall(t)
        \/ InitBackendCall(t)
        \/ t = "t1" /\ GetKeyringCall(t)
        \/ PromiseAllSettles(t)
        \/ ListResolved(t)
        \/ NextSource(t)
        \/ ReadConfig(t)
        \/ AssignActive(t)
        \/ GetKeyringReturn(t)
    \/ \E factory \in Registerable : registerBackend(factory)
    \/ setKeyring(UserBackend)
    \/ resetRegistryForTests

\* a fresh file store; the registry as the module leaves it when loaded
InitStore ==
    /\ storeFile = NoFile
    /\ keyFile = NoFile
    /\ tmpFile = [p \in Procs |-> NoFile]
    /\ envKey \in {"unset", "valid", "short"}
    /\ loc = [p \in Procs |-> IdleLoc]
    /\ keysDrawn = 0
    /\ noncesDrawn = 0
    /\ calls = 0
    /\ quietSet = QuietNone
    /\ builtinFactories = BuiltinFactories
    /\ cachedBackends = NoCache
    /\ activeBackend = NoBackend
    /\ backendLimit = "undefined"
    /\ envBackend = ""
    /\ configFile = Config("ENOENT", "", FALSE)
    /\ platform = "linux"
    /\ task = [t \in Tasks |-> IdleTask]
    /\ instances = 0
    /\ procEnv = <<>>
    /\ objects = <<>>
    /\ cmd = NoCommand
    /\ regCalls = 0

\* the registry as the module leaves it when loaded, in one of the settings
\* and on one of the platforms; the file store fresh
InitRegistry ==
    /\ builtinFactories = BuiltinFactories
    /\ cachedBackends = NoCache
    /\ activeBackend = NoBackend
    /\ backendLimit = "undefined"
    /\ \E s \in Settings : envBackend = s[1] /\ configFile = s[2]
    /\ platform \in Platforms
    /\ task = [t \in Tasks |-> IdleTask]
    /\ instances = 0
    /\ procEnv = <<>>
    /\ objects = <<>>
    /\ cmd = NoCommand
    /\ regCalls = 0
    /\ storeFile = NoFile
    /\ keyFile = NoFile
    /\ tmpFile = [p \in Procs |-> NoFile]
    /\ envKey = "unset"
    /\ loc = [p \in Procs |-> IdleLoc]
    /\ keysDrawn = 0
    /\ noncesDrawn = 0
    /\ calls = 0
    /\ quietSet = QuietNone

SpecStore == InitStore /\ [][StoreNext]_vars

\* the maps a store in use holds: two accounts of one service, or one
SeedStores ==
    {<<[k |-> Svc, v |-> <<[k |-> Alice, v |-> PwP], [k |-> Bob, v |-> PwQ]>>]>>,
     <<[k |-> Svc, v |-> <<[k |-> Alice, v |-> PwP]>>]>>}

\* a store in use: the store file holds one of these maps, written earlier
\* under nonce 0 with the key of the environment or with key 1 of the key
\* file; the registry as the module leaves it when loaded
InitStored ==
    /\ envKey \in {"valid", "unset"}
    /\ keyFile = IF envKey = "unset" THEN KeyBytes(1) ELSE NoFile
    /\ keysDrawn = IF envKey = "unset" THEN 1 ELSE 0
    /\ \E seed \in SeedStores :
          storeFile = encryptStore(seed,
                        IF envKey = "unset" THEN 1 ELSE EnvMasterKey, 0)
    /\ tmpFile = [p \in Procs |-> NoFile]
    /\ loc = [p \in Procs |-> IdleLoc]
    /\ noncesDrawn = 0
    /\ calls = 0
    /\ quietSet = QuietNone
    /\ builtinFactories = BuiltinFactories
    /\ cachedBackends = NoCache
    /\ activeBackend = NoBackend
    /\ backendLimit = "undefined"
    /\ envBackend = ""
    /\ configFile = Config("ENOENT", "", FALSE)
    /\ platform = "linux"
    /\ task = [t \in Tasks |-> IdleTask]
    /\ instances = 0
    /\ procEnv = <<>>
    /\ objects = <<>>
    /\ cmd = NoCommand
    /\ regCalls = 0

\* the calls on a store in use, nobody altering the files or dying
StoredNext ==
    \E p \in Procs :
        \/ GetPasswordCall(p)
        \/ SetPasswordCall(p)
        \/ DeletePasswordCall(p)
        \/ GetCredentialCall(p)
        \/ ReadStoreFile(p)
        \/ ReadKeyFile(p)
        \/ TmpFileOpen(p)
        \/ TmpFileWritten(p)
        \/ RenameTmpFile(p)
        \/ Return(p)

SpecStored == InitStored /\ [][StoredNext]_vars

SpecRegistry == InitRegistry /\ [][RegNext]_vars

\* the registry of an application that also registers classes which fail;
\* TS_KEYRING_BACKEND unset and no config file
InitFaulty ==
    /\ builtinFactories = BuiltinFactories
    /\ cachedBackends = NoCache
    /\ activeBackend = NoBackend
    /\ backendLimit = "undefined"
    /\ envBackend = ""
    /\ configFile = Config("ENOENT", "", FALSE)
    /\ platform \in Platforms
    /\ task = [t \in Tasks |-> IdleTask]
    /\ instances = 0
    /\ procEnv = <<>>
    /\ objects = <<>>
    /\ cmd = NoCommand
    /\ regCalls = 0
    /\ storeFile = NoFile
    /\ keyFile = NoFile
    /\ tmpFile = [p \in Procs |-> NoFile]
    /\ envKey = "unset"
    /\ loc = [p \in Procs |-> IdleLoc]
    /\ keysDrawn = 0
    /\ noncesDrawn = 0
    /\ calls = 0
    /\ quietSet = QuietNone

FaultyNext ==
    \/ RegNext
    \/ \E factory \in Faulty : registerBackend(factory)

SpecFaulty == InitFaulty /\ [][FaultyNext]_vars


\* ------------------------------------------------- the backend properties
MaxObjects == 3    \* instances constructed in a run

ENV_PROPERTY_PREFIX ==
    <<"K","E","Y","R","I","N","G","_","P","R","O","P","E","R","T","Y","_">>

LowerSeq == <<"a","b","c","d","e","f","g","h","i","j","k","l","m",
              "n","o","p","q","r","s","t","u","v","w","x","y","z">>
UpperSeq == <<"A","B","C","D","E","F","G","H","I","J","K","L","M",
              "N","O","P","Q","R","S","T","U","V","W","X","Y","Z">>

\* String.prototype.toLowerCase
toLowerCase(s) ==
    [i \in 1..Len(s) |->
        IF s[i] \in Upper
        THEN LowerSeq[CHOOSE n \in 1..26 : UpperSeq[n] = s[i]]
        ELSE s[i]]

\* key.startsWith(ENV_PROPERTY_PREFIX)
startsWithPrefix(key) ==
    /\ Len(key) >= Len(ENV_PROPERTY_PREFIX)
    /\ SubSeq(key, 1, Len(ENV_PROPERTY_PREFIX)) = ENV_PROPERTY_PREFIX

\* key.replace(ENV_PROPERTY_PREFIX, "") on a key that starts with the prefix
replacePrefix(key) == SubSeq(key, Len(ENV_PROPERTY_PREFIX) + 1, Len(key))

\* { ...target, ...source }: the own properties of source defined on target
RECURSIVE Spread(_, _)
Spread(target, source) ==
    IF source = <<>> THEN target
    ELSE Spread(DefineOwn(target, Head(source).k, Head(source).v), Tail(source))

\* the entries applyEnvOverrides loops over
EnvEntries(env) ==
    LET named == SelectSeq(env, LAMBDA e : startsWithPrefix(e.k)) IN
    [i \in 1..Len(named) |->
        [property |-> toLowerCase(replacePrefix(named[i].k)),
         value |-> named[i].v]]

\* applyEnvOverrides: this.properties[property] = value, entry by entry
RECURSIVE AssignAll(_, _)
AssignAll(properties, entries) ==
    IF entries = <<>> THEN properties
    ELSE AssignAll(JsAssignString(properties, Head(entries).property,
                                  Head(entries).value),
                   Tail(entries))

applyEnvOverrides(properties, env) == AssignAll(properties, EnvEntries(env))

\* new ConfigurableBackend(properties): the property map of the instance
ConfigurableBackend(properties, env) ==
    applyEnvOverrides(Spread(<<>>, properties), env)

\* a merge in which the receiver's values win over the overrides
mergedPropertiesReceiverWins(receiver, properties) ==
    Spread(Spread(<<>>, properties), receiver)

\* { ...this.properties, ...properties } in withProperties
mergedProperties(receiver, properties) ==
    Spread(Spread(<<>>, receiver), properties)

\* property names and values
ModeKey == <<"m","o","d","e">>
PathKey == <<"p","a","t","h">>
EnvName(suffix) == ENV_PROPERTY_PREFIX \o suffix

\* what process.env holds: no KEYRING_PROPERTY_ variable, one, two that
\* differ in case only, and one whose name lower-cases to __proto__
EnvSettings ==
    {<<[k |-> <<"H","O","M","E">>, v |-> <<"h">>]>>,
     <<[k |-> EnvName(<<"M","O","D","E">>), v |-> <<"e","n","v">>]>>,
     <<[k |-> EnvName(<<"M","O","D","E">>), v |-> <<"e","n","v">>],
       [k |-> EnvName(ModeKey), v |-> <<"e","n","v","2">>]>>,
     <<[k |-> EnvName(<<"_","_","P","R","O","T","O","_","_">>),
        v |-> <<"e","n","v">>]>>}

\* the property maps a caller constructs a backend with (none is {})
PropertyInputs ==
    {<<>>, <<[k |-> ModeKey, v |-> <<"c","t","o","r">>]>>,
     <<[k |-> PathKey, v |-> <<"c","t","o","r">>]>>}

\* the overrides a caller, or backendProperties of the config file, passes
OverrideInputs ==
    {<<[k |-> ModeKey, v |-> <<"o","v","e","r">>]>>,
     <<[k |-> PathKey, v |-> <<"o","v","e","r">>],
       [k |-> ModeKey, v |-> <<"o","v","e","r">>]>>}

BackendClasses == {"FileSystemBackend", "NullBackend"}

\* new cls(properties)
NewBackend(cls, properties) ==
    /\ Len(objects) < MaxObjects
    /\ objects' = Append(objects,
            [cls |-> cls, props |-> ConfigurableBackend(properties, procEnv),
             from |-> 0, before |-> <<>>, given |-> properties])
    /\ UNCHANGED <<storeVars, regVars, procEnv, cmd>>

\* objects[r].withProperties(overrides); `from`, `before` and `given` are
\* history: the receiver, its property map at the call, and the overrides
WithPropertiesCall(r, overrides) ==
    /\ Len(objects) < MaxObjects
    /\ objects' = Append(objects,
            [cls |-> objects[r].cls,
             props |-> ConfigurableBackend(
                          mergedProperties(objects[r].props, overrides),
                          procEnv),
             from |-> r, before |-> objects[r].props, given |-> overrides])
    /\ UNCHANGED <<storeVars, regVars, procEnv, cmd>>

PropertiesNext ==
    \/ \E cls \in BackendClasses, properties \in PropertyInputs :
          NewBackend(cls, properties)
    \/ \E r \in 1..Len(objects), overrides \in OverrideInputs :
          WithPropertiesCall(r, overrides)

InitProperties ==
    /\ procEnv \in EnvSettings
    /\ objects = <<>>
    /\ cmd = NoCommand
    /\ storeFile = NoFile
    /\ keyFile = NoFile
    /\ tmpFile = [p \in Procs |-> NoFile]
    /\ envKey = "unset"
    /\ loc = [p \in Procs |-> IdleLoc]
    /\ keysDrawn = 0
    /\ noncesDrawn = 0
    /\ calls = 0
    /\ quietSet = QuietNone
    /\ builtinFactories = BuiltinFactories
    /\ cachedBackends = NoCache
    /\ activeBackend = NoBackend
    /\ backendLimit = "undefined"
    /\ envBackend = ""
    /\ configFile = Config("ENOENT", "", FALSE)
    /\ platform = "linux"
    /\ task = [t \in Tasks |-> IdleTask]
    /\ instances = 0
    /\ regCalls = 0

SpecProperties == InitProperties /\ [][PropertiesNext]_vars


\* ------------------------------------------------------ the Null backend

\* NullBackend.getPassword
NullGetPassword(service, account) == ReturnedNull

\* NullBackend.setPassword
NullSetPassword(service, account, password) == ReturnedVoid

\* a deletePassword that succeeds silently
NullDeletePasswordSilent(service, account) == ReturnedVoid

\* NullBackend.deletePassword
NullDeletePassword(service, account) == Thrown("PasswordDeleteError")

\* ConfigurableBackend.lookupUsernames, which NullBackend inherits
defaultLookupUsernames(service) == <<>>

\* ConfigurableBackend.getCredential over NullBackend.getPassword
NullGetCredential(service, account) ==
    LET usernames == defaultLookupUsernames(service)
        username == IF account \notin {NoAccount, EmptyString} THEN account
                    ELSE IF usernames = <<>> THEN NoAccount
                    ELSE usernames[1]
        password == NullGetPassword(service, username)
    IN IF username = NoAccount THEN ReturnedNull
       ELSE IF password = ReturnedNull THEN ReturnedNull
       ELSE ReturnedCredential(username, password)

\* the keys the operations of the Null backend are called with; it
\* validates none of them
NullKeys(p) == IF p = "p1" THEN {<<Svc, Alice>>, <<BadCharId, Alice>>}
               ELSE {<<Svc, Alice>>}

\* one operation of the backend getKeyring resolved to, the Null backend;
\* it has no await before its return. `order` counts the calls so far.
NullCall(p, op, key, pw, out) ==
    /\ activeBackend.cls = "NullBackend"
    /\ loc[p].pc = "idle"
    /\ StartCall(p, Finish([IdleLoc EXCEPT !.op = op, !.svc = key[1],
                                           !.acc = key[2], !.pw = pw,
                                           !.stage = "null",
                                           !.order = calls + 1],
                           out))
    /\ UNCHANGED <<regVars, propVars, cmd, storeFile, keyFile, tmpFile, envKey,
                   keysDrawn, noncesDrawn>>

NullGetPasswordCall(p) ==
    \E key \in NullKeys(p) :
        NullCall(p, "getPassword", key, <<>>, NullGetPassword(key[1], key[2]))

NullSetPasswordCall(p) ==
    \E key \in NullKeys(p) :
        NullCall(p, "setPassword", key, PwP,
                 NullSetPassword(key[1], key[2], PwP))

NullDeletePasswordCall(p) ==
    \E key \in NullKeys(p) :
        NullCall(p, "deletePassword", key, <<>>,
                 NullDeletePassword(key[1], key[2]))

NullGetCredentialCall(p) ==
    \E key \in NullKeys(p) :
        \E account \in {key[2], NoAccount} :
            NullCall(p, "getCredential", <<key[1], account>>, <<>>,
                     NullGetCredential(key[1], account))

\* a registry with the built-in factories, the environment variable unset
\* or naming the file backend, and no config file
InitNull ==
    /\ builtinFactories = BuiltinFactories
    /\ cachedBackends = NoCache
    /\ activeBackend = NoBackend
    /\ backendLimit = "undefined"
    /\ envBackend \in {"", "file"}
    /\ configFile = Config("ENOENT", "", FALSE)
    /\ platform \in Platforms
    /\ task = [t \in Tasks |-> IdleTask]
    /\ instances = 0
    /\ procEnv = <<>>
    /\ objects = <<>>
    /\ cmd = NoCommand
    /\ regCalls = 0
    /\ storeFile = NoFile
    /\ keyFile = NoFile
    /\ tmpFile = [p \in Procs |-> NoFile]
    /\ envKey = "unset"
    /\ loc = [p \in Procs |-> IdleLoc]
    /\ keysDrawn = 0
    /\ noncesDrawn = 0
    /\ calls = 0
    /\ quietSet = QuietNone

NullNext ==
    \/ \E t \in Tasks :
        \/ InitBackendCall(t)
        \/ t = "t1" /\ GetKeyringCall(t)
        \/ PromiseAllSettles(t)
        \/ ListResolved(t)
        \/ NextSource(t)
        \/ ReadConfig(t)
        \/ AssignActive(t)
        \/ GetKeyringReturn(t)
    \/ \E p \in Procs :
        \/ NullGetPasswordCall(p)
        \/ NullSetPasswordCall(p)
        \/ NullDeletePasswordCall(p)
        \/ NullGetCredentialCall(p)
        \/ Return(p)

SpecNull == InitNull /\ [][NullNext]_vars


\* --------------------------------------------------- claims on the registry

\* the call runs initBackend: initBackend itself, or getKeyring with nothing
\* installed
InitCall(l) == l.op \in {"initBackend", "getKeyring"} /\ l.k >= 1

Chosen(l) == l.pc \in {"install", "recheck", "done"} /\ l.chosen # NoBackend

Listed(id, list) == \E i \in 1..Len(list) : list[i].id = id

Available(id, list, limit) ==
    \E i \in 1..Len(list) : list[i].id = id /\ LimitAccepts(limit, list[i])

\* C6: an initBackend that finds TS_KEYRING_BACKEND set to an id that is not
\* in the list of supported backends fails with InitError, has neither read
\* the config file nor run auto-detection, and has not assigned the active
\* backend.
C6_UnknownEnvBackendFails ==
    \A t \in Tasks :
        LET l == task[t] IN
        (InitCall(l) /\ envBackend # "" /\ l.got /\ ~Listed(envBackend, l.list))
        => /\ ~l.cfgRead /\ ~l.detected /\ ~l.wrote
           /\ l.pc \in {"have_list", "done"}
           /\ l.pc = "done" => l.out = Rejected("InitError")

\* the call has failed and the backend installed before it is still there
C6_Witness ==
    \E t \in Tasks :
        /\ task[t].op = "initBackend" /\ task[t].pc = "done"
        /\ envBackend = "ghost"
        /\ task[t].out = Rejected("InitError")
        /\ activeBackend = UserBackend

EnvNamesAvailable(l) ==
    envBackend # "" /\ l.got /\ Available(envBackend, l.list, l.limit)

ConfigNamesAvailable(l, list) ==
    /\ configFile.kind = "json"
    /\ configFile.defaultBackend # ""
    /\ Available(configFile.defaultBackend, list, l.limit)

\* the first clause of C7: the backend the variable names wins, the config
\* file is not read, detection does not run, initBackend does not fail
EnvFirst(l) ==
    EnvNamesAvailable(l)
    => /\ ~l.cfgRead /\ ~l.detected
       /\ l.pc \in {"have_list", "install", "recheck", "done"}
       /\ Chosen(l) => l.chosen.id = envBackend /\ l.source = "env"
       /\ (l.pc = "done" /\ l.op = "initBackend") => l.out = ResolvedVoid

Accepted(l) == SelectSeq(l.list, LAMBDA b : LimitAccepts(l.limit, b))

\* C8: what auto-detection returns is, among the backends of the list that
\* the limit accepts, one of maximal priority, and the first of the list
\* among those of maximal priority; when the limit accepts none, it is a
\* Null backend (id "null", priority -1) made for the occasion, and that is
\* what initBackend installs.
C8_DetectPicksFirstMaximum ==
    \A t \in Tasks :
        LET l == task[t]
            accepted == Accepted(l)
        IN
        (l.source = "detect" /\ l.pc \in {"install", "recheck", "done"})
        => /\ l.chosen # NoBackend
           /\ IF Len(accepted) = 0
              THEN /\ l.chosen.id = "null"
                   /\ l.chosen.priority = NullBackend.priority
                   /\ l.chosen.cls = "NullBackend"
              ELSE \E i \in 1..Len(accepted) :
                      /\ accepted[i] = l.chosen
                      /\ \A j \in 1..Len(accepted) :
                            accepted[j].priority <= l.chosen.priority
                      /\ \A j \in 1..(i - 1) :
                            accepted[j].priority < l.chosen.priority

\* detection has picked the first of two backends of the same, maximal,
\* priority and initBackend has installed it
C8_Witness ==
    \E t \in Tasks :
        LET l == task[t] IN
        /\ l.source = "detect" /\ l.wrote /\ activeBackend = l.chosen
        /\ \E i, j \in 1..Len(l.list) :
              /\ i < j
              /\ l.list[i] = l.chosen
              /\ l.list[j].priority = l.chosen.priority

\* C9: the backend an initBackend(limit), or the initBackend inside
\* getKeyring, has chosen is accepted by the limit of the call, whichever
\* source chose it, unless it is the Null backend detection makes when the
\* limit accepts nothing of the list; and a loadBackendById that resolves
\* with a backend resolves with one its limit accepts.
C9_LimitRespected ==
    \A t \in Tasks :
        LET l == task[t] IN
        /\ (InitCall(l) /\ Chosen(l))
           => \/ LimitAccepts(l.limit, l.chosen)
              \/ /\ l.source = "detect"
                 /\ l.chosen.id = "null"
                 /\ Len(Accepted(l)) = 0
                 /\ \A i \in 1..Len(l.list) : l.list[i] # l.chosen
        /\ (l.op = "loadBackendById" /\ l.pc = "done" /\ l.out.kind = "backend")
           => LimitAccepts(l.limit, l.out.backend)
        /\ (l.op = "loadBackendById" /\ l.pc = "done" /\ l.out.kind = "null")
           => ~Available(l.id, l.list, l.limit)

\* a limit that rejects the backend of highest priority was passed and the
\* installed backend is one the limit accepts
C9_Witness ==
    \E t \in Tasks :
        LET l == task[t] IN
        /\ InitCall(l) /\ l.wrote /\ activeBackend = l.chosen
        /\ l.limit = "onlyMacos" /\ l.chosen.id = "macos"
        /\ \E i \in 1..Len(l.list) :
              /\ ~LimitAccepts(l.limit, l.list[i])
              /\ l.list[i].priority > l.chosen.priority

\* C10: the list a getAllBackends call resolves with was built from a
\* factory list that contains every factory registered before the call
\* started.
C10_CacheNeverOutlivesRegistration ==
    \A t \in Tasks :
        LET l == task[t] IN
        l.pc = "have_list"
        => \A i \in 1..Len(l.asked) :
              \E j \in 1..Len(l.from) : l.from[j] = l.asked[i]


\* ------------------------------------------ claims on failing factories

\* the probe of the class, if it has one, answers true on this platform
Supported(factory) ==
    \/ ~factory.hasProbe
    \/ factory.probe = "answers" /\ platform \in factory.supportedOn

\* the classes of a factory list that are supported and whose constructor
\* returns
Constructible(factories) ==
    SelectSeq(factories, LAMBDA f : Supported(f) /\ f.ctor = "ok")

ClassesOf(list) == [i \in 1..Len(list) |-> list[i].cls]

\* what goes wrong when instantiate is applied to the class: "" for nothing
FailureOf(factory) ==
    IF factory.hasProbe /\ factory.probe = "rejects" THEN "ProbeError"
    ELSE IF Supported(factory) /\ factory.ctor # "ok" THEN factory.ctor
    ELSE ""

\* the errors the registry raises itself
RegistryErrors == {"InitError", "SyntaxError", "NoKeyringError"}

Explodes(factory) ==
    Supported(factory) /\ factory.ctor \notin {"ok", "InitError"}

\* C11: the list getAllBackends resolves with holds, in the order of the
\* factory list, an instance of every supported class whose constructor
\* returns, and none of a class whose constructor throws InitError; it
\* resolves with a list only when no supported class throws anything else
\* from its constructor; when one does, the call (and the call that awaited
\* it) fails, with the error a class of the list failed with, InitError
\* never being that error.
C11_OnlyInitErrorAbsorbed ==
    \A t \in Tasks :
        LET l == task[t] IN
        /\ l.got
           => /\ ClassesOf(l.list) = ClassesOf(Constructible(l.from))
              /\ \A i \in 1..Len(l.from) : ~Explodes(l.from[i])
        /\ (l.snapshot # <<>> /\ l.pc # "await_list"
            /\ \E i \in 1..Len(l.snapshot) : Explodes(l.snapshot[i]))
           => /\ l.pc = "done"
              /\ l.out.kind = "error"
        /\ (l.pc = "done" /\ l.out.kind = "error"
            /\ l.out.err \notin RegistryErrors)
           => \E i \in 1..Len(l.snapshot) :
                 FailureOf(l.snapshot[i]) = l.out.err

\* a class whose constructor throws InitError is registered and
\* getAllBackends has resolved with the other supported backends
C11_Witness ==
    \E t \in Tasks :
        LET l == task[t] IN
        /\ l.op = "getAllBackends" /\ l.pc = "done" /\ l.out.kind = "list"
        /\ \E i \in 1..Len(l.from) : l.from[i] = ThrowingBackend
        /\ ~Listed("throw", l.out.list)
        /\ Listed("file", l.out.list) /\ Listed("null", l.out.list)

\* C12: a construction round over a factory list that holds a class whose
\* isSupported() fails, and no class whose constructor throws something
\* else than InitError, resolves with the list of the remaining supported
\* backends: the call does not fail.
C12_ProbeFailureSkipped ==
    \A t \in Tasks :
        LET l == task[t] IN
        (/\ l.snapshot # <<>> /\ l.pc # "await_list"
         /\ \E i \in 1..Len(l.snapshot) : l.snapshot[i].probe = "rejects"
         /\ \A i \in 1..Len(l.snapshot) : ~Explodes(l.snapshot[i]))
        => /\ l.got
           /\ ClassesOf(l.list) = ClassesOf(Constructible(l.snapshot))


\* ---------------------------------------------- claims on the memoization

\* the step starts a getKeyring call of t
GetKeyringStarts(t) ==
    Free(t) /\ task'[t] # task[t] /\ task'[t].op = "getKeyring"

\* C13: a getKeyring that starts while a backend is installed returns that
\* very instance at once, without asking a source, building an instance or
\* touching the active backend; and the active backend changes only in a
\* step of setKeyring or the reset, or in the assignment of an initBackend
\* (called directly or by a getKeyring that found nothing installed), never
\* in a step of registerBackend, getAllBackends or loadBackendById.
C13_ActiveBackendMemoized ==
    [][/\ \A t \in Tasks :
            (GetKeyringStarts(t) /\ activeBackend # NoBackend)
            => /\ task'[t].pc = "done"
               /\ task'[t].out = ResolvedBackend(activeBackend)
               /\ task'[t].k = 0 /\ ~task'[t].detected /\ ~task'[t].cfgRead
               /\ activeBackend' = activeBackend
               /\ instances' = instances
       /\ activeBackend' # activeBackend
          => /\ builtinFactories' = builtinFactories
             /\ \A t \in Tasks :
                    task'[t] # task[t]
                    => /\ InitCall(task[t]) /\ task[t].pc = "install"
                       /\ activeBackend' = task[t].chosen
      ]_vars

\* a second getKeyring has returned, without initialisation, the instance
\* that detection installed
C13_Witness ==
    \E t \in Tasks :
        LET l == task[t] IN
        /\ l.op = "getKeyring" /\ l.pc = "done" /\ l.k = 0
        /\ l.out = ResolvedBackend(activeBackend)
        /\ activeBackend.cls \notin {"", "UserBackend"}


\* ------------------------------------------- claims on delete and on races

\* the pair is in the map: an own property of an own property
OwnPair(store, service, account) ==
    /\ HasOwn(store, service)
    /\ HasOwn(store[OwnIndex(store, service)].v, account)

\* readStore has returned to the call: no file, or an envelope that the key
\* of the call decrypts
Decoded(l) ==
    /\ l.io /\ l.pc # "read"
    /\ \/ l.data.kind = "absent"
       \/ /\ l.data.kind = "envelope" /\ l.data.version = FormatVersion
          /\ l.pc = "done" \/ l.phase = "enc"
          /\ l.key # -1 /\ decryptStore(l.data, l.key).ok

\* the map readStore returned to the call
Seen(l) ==
    IF l.data.kind = "absent" THEN <<>>
    ELSE JSONparse(l.data.encrypted.body).val

\* C14: a deletePassword(service, account) to which readStore returned a map
\* without the pair fails with PasswordDeleteError and has encrypted and
\* written nothing.
C14_DeleteOfAbsentPairFails ==
    \A p \in Procs :
        LET l == loc[p] IN
        (/\ l.op = "deletePassword" /\ Decoded(l)
         /\ ~OwnPair(Seen(l), l.svc, l.acc))
        => /\ l.pc = "done"
           /\ l.out = Thrown("PasswordDeleteError")
           /\ l.buf = NoFile
           /\ tmpFile[p] = NoFile

\* the pairs of a map, each with its password
PairsOf(store) ==
    UNION {{<<store[i].k, store[i].v[j].k, store[i].v[j].v>> :
                j \in 1..Len(store[i].v)} : i \in 1..Len(store)}

\* the map a deletePassword writes, against the map readStore returned to
\* it: the pair is gone, every other pair is there with its password, and
\* the service is there exactly when an account of it is left
DeleteRemovesThePair ==
    \A p \in Procs :
        LET l == loc[p] IN
        (/\ l.op = "deletePassword" /\ Decoded(l)
         /\ OwnPair(Seen(l), l.svc, l.acc))
        => /\ PasswordOf(l.store, l.svc, l.acc) = JsNull
           /\ PairsOf(l.store)
                = {x \in PairsOf(Seen(l)) : <<x[1], x[2]>> # <<l.svc, l.acc>>}
           /\ HasOwn(l.store, l.svc)
                <=> \E x \in PairsOf(Seen(l)) : x[1] = l.svc /\ x[2] # l.acc
           /\ (l.pc = "done" /\ l.alone)
                => /\ l.out = ReturnedVoid
                   /\ Untouched(storeFile)
                        => JSONparse(storeFile.encrypted.body).val = l.store

\* no service of the persisted map has an empty account map
NoEmptyServicePersisted ==
    (storeFile.kind = "envelope" /\ storeFile.tamper = "none")
    => LET store == JSONparse(storeFile.encrypted.body).val IN
       \A i \in 1..Len(store) : Len(store[i].v) > 0

\* C15: a deletePassword of a pair that is in the store removes exactly that
\* pair and drops the service exactly when no account of it is left, and
\* the persisted map never holds a service with an empty account map.
C15_DeleteRemovesExactlyThePair ==
    DeleteRemovesThePair /\ NoEmptyServicePersisted


\* two setPassword calls have returned, q having renamed before p, both
\* with the same key, and one started while the other was in progress
BothSet(p, q) ==
    /\ p # q
    /\ loc[p].op = "setPassword" /\ loc[q].op = "setPassword"
    /\ loc[p].pc = "done" /\ loc[q].pc = "done"
    /\ loc[p].out = ReturnedVoid /\ loc[q].out = ReturnedVoid
    /\ loc[p].order > loc[q].order /\ loc[q].order > 0
    /\ ~loc[p].alone /\ ~loc[q].alone
    /\ loc[p].key = loc[q].key

\* C16: when two overlapping setPassword calls with the same key have both
\* returned, and nothing altered the file behind the program's back, the
\* store file is the envelope of the call that renamed last and decrypts to
\* the map readStore returned to that call with that call's update applied.
C16_LastWriterWins ==
    \A p, q \in Procs :
        (BothSet(p, q) /\ Untouched(storeFile))
        => /\ storeFile.kind = "envelope"
           /\ storeFile = loc[p].buf
           /\ decryptStore(storeFile, loc[p].key).ok
           /\ decryptStore(storeFile, loc[p].key).val
                = Upsert(Seen(loc[p]), loc[p].svc, loc[p].acc, loc[p].pw)

\* both calls read the same map, and the pair of the call that renamed
\* first is not in the store
C16_Witness ==
    \E p, q \in Procs :
        /\ BothSet(p, q) /\ Untouched(storeFile)
        /\ Seen(loc[p]) = Seen(loc[q])
        /\ loc[q].acc # ProtoKey /\ loc[p].acc # loc[q].acc
        /\ ~OwnPair(decryptStore(storeFile, loc[p].key).val,
                    loc[q].svc, loc[q].acc)
        /\ OwnPair(decryptStore(storeFile, loc[p].key).val,
                   loc[p].svc, loc[p].acc)


\* C17: a getCredential(service) without an account returns null when the
\* map of the username lookup lists no username for the service; otherwise
\* the username it goes on with is the first one listed, and it returns null
\* when the map of the password fetch no longer holds that username, and
\* else that username with the password that map holds for it; it raises
\* no error.
C17_CredentialLookupRace ==
    \A p \in Procs :
        LET l == loc[p] IN
        (l.op = "getCredential" /\ l.acc = NoAccount)
        => /\ (l.stage = "lookup" /\ l.pc = "done")
              => /\ Decoded(l)
                 /\ lookupUsernames(Seen(l), l.svc) = <<>>
                 /\ l.out = ReturnedNull
           /\ l.stage = "fetch"
              => /\ l.listed # <<>> /\ l.user = l.listed[1]
                 /\ l.pc = "done"
                    => /\ Decoded(l)
                       /\ IF OwnPair(Seen(l), l.svc, l.user)
                          THEN \E x \in PairsOf(Seen(l)) :
                                  /\ x[1] = l.svc /\ x[2] = l.user
                                  /\ l.out = ReturnedCredential(l.user,
                                                               JsString(x[3]))
                          ELSE l.out = ReturnedNull

\* the first listed username was deleted by the other caller between the
\* username lookup and the password fetch, and getCredential returned null
C17_Witness ==
    \E p, q \in Procs :
        /\ loc[p].op = "getCredential" /\ loc[p].acc = NoAccount
        /\ loc[p].stage = "fetch" /\ loc[p].pc = "done"
        /\ loc[p].out = ReturnedNull
        /\ loc[p].listed[1] = Alice
        /\ loc[q].op = "deletePassword" /\ loc[q].acc = Alice
        /\ loc[q].out = ReturnedVoid
        /\ Len(Seen(loc[p])) > 0


\* ------------------------------------------------ claims on the properties

\* the own properties of a map, as a set
EntriesOf(properties) == {properties[i] : i \in 1..Len(properties)}

\* the property names the KEYRING_PROPERTY_ variables stand for
EnvNamed == {EnvEntries(procEnv)[i].property : i \in 1..Len(EnvEntries(procEnv))}

\* the receiver of the call that made objects[i]
ReceiverOf(i) == objects[objects[i].from]

\* C18: the receiver of a withProperties call has the property map it had
\* before the call; the result is another instance, of the receiver's
\* class, whose property map is the receiver's with the overrides applied
\* key by key.
C18_WithPropertiesMergesShallowly ==
    \A i \in 1..Len(objects) :
        objects[i].from > 0
        => /\ objects[i].from # i
           /\ ReceiverOf(i).props = objects[i].before
           /\ objects[i].cls = ReceiverOf(i).cls
           /\ EntriesOf(objects[i].props)
                = EntriesOf(Spread(Spread(<<>>, objects[i].before),
                                   objects[i].given))

\* C18 as amended: the same, the property map of the result being the
\* receiver's with the overrides applied key by key on every key that no
\* KEYRING_PROPERTY_ variable stands for.
C18_WithPropertiesMergesBelowEnv ==
    \A i \in 1..Len(objects) :
        objects[i].from > 0
        => /\ objects[i].from # i
           /\ ReceiverOf(i).props = objects[i].before
           /\ objects[i].cls = ReceiverOf(i).cls
           /\ {e \in EntriesOf(objects[i].props) : e.k \notin EnvNamed}
                = {e \in EntriesOf(Spread(Spread(<<>>, objects[i].before),
                                          objects[i].given)) :
                        e.k \notin EnvNamed}

\* an instance was derived with an override of a property its receiver
\* holds, while a KEYRING_PROPERTY_ variable is set; the receiver still
\* holds its value and the result holds the override
C18_Witness ==
    \E i \in 1..Len(objects) :
        /\ objects[i].from > 0
        /\ EnvNamed # {}
        /\ \E e \in EntriesOf(ReceiverOf(i).props), g \in EntriesOf(objects[i].given) :
              /\ e.k = g.k /\ e.v # g.v /\ e.k \notin EnvNamed
              /\ g \in EntriesOf(objects[i].props)

\* C19: for every variable KEYRING_PROPERTY_<K> of the environment, every
\* instance, constructed or derived, reads the value of the variable under
\* the property name lower-case(K).
C19_EnvOverridesAlwaysWin ==
    \A i \in 1..Len(objects), j \in 1..Len(procEnv) :
        startsWithPrefix(procEnv[j].k)
        => JsGetString(objects[i].props,
                       toLowerCase(replacePrefix(procEnv[j].k)))
             = JsString(procEnv[j].v)

\* ---------------------------------------------- claims on the Null backend

\* the limit is a predicate and accepts no backend of the list
RejectsAll(limit, list) ==
    /\ limit # "undefined"
    /\ \A i \in 1..Len(list) : ~LimitAccepts(limit, list[i])

\* the call of p ran on the Null backend and has its outcome
OnNull(p) == loc[p].pc = "done" /\ loc[p].stage = "null"

\* C20: an initBackend or getKeyring that installed a backend under a
\* limit accepting none of the supported backends installed the Null
\* backend; every getPassword and getCredential on it returns null, every
\* setPassword returns and every deletePassword fails with
\* PasswordDeleteError, whatever ran before, and no file is ever written.
C20_NullBackendWhenLimitRejectsAll ==
    /\ \A t \in Tasks :
          (/\ task[t].pc = "done"
           /\ task[t].wrote
           /\ RejectsAll(task[t].limit, task[t].list))
          => /\ activeBackend.cls = "NullBackend"
             /\ task[t].op = "getKeyring"
                  => task[t].out = ResolvedBackend(activeBackend)
    /\ \A p \in Procs :
          OnNull(p)
          => CASE loc[p].op \in {"getPassword", "getCredential"} ->
                    loc[p].out = ReturnedNull
               [] loc[p].op = "setPassword" -> loc[p].out = ReturnedVoid
               [] loc[p].op = "deletePassword" ->
                    loc[p].out = Thrown("PasswordDeleteError")
    /\ (\E p \in Procs : OnNull(p))
          => /\ storeFile = NoFile
             /\ keyFile = NoFile
             /\ \A p \in Procs : tmpFile[p] = NoFile

\* initBackend installed a backend under a limit that rejects all; on it a
\* setPassword returned, and after that a deletePassword of the same key
\* has failed
C20_Witness ==
    /\ task["t1"].pc = "done"
    /\ task["t1"].op = "initBackend"
    /\ task["t1"].wrote
    /\ RejectsAll(task["t1"].limit, task["t1"].list)
    /\ \E p, q \in Procs :
          /\ OnNull(p) /\ loc[p].op = "setPassword"
          /\ OnNull(q) /\ loc[q].op = "deletePassword"
          /\ loc[q].svc = loc[p].svc /\ loc[q].acc = loc[p].acc
          /\ loc[q].order > loc[p].order

\* ------------------------------------------------ claims on the validation

\* the error classes that extend KeyringError, and KeyringError itself
KeyringErrors ==
    {"KeyringError", "PasswordSetError", "PasswordDeleteError", "InitError",
     "KeyringLockedError", "NoKeyringError"}

\* the call of p has failed with a KeyringError
FailedWithKeyringError(p) ==
    loc[p].out.kind = "error" /\ loc[p].out.err \in KeyringErrors

\* C21: on every backend, the Null backend included, a getPassword,
\* setPassword or deletePassword that was called with an invalid service or
\* account has failed with a KeyringError, and so has a setPassword with an
\* invalid password.
C21_EveryBackendValidates ==
    \A p \in Procs :
        (/\ loc[p].pc = "done"
         /\ loc[p].op \in {"getPassword", "setPassword", "deletePassword"}
         /\ \/ validateIdentifier(loc[p].svc) # ""
            \/ validateIdentifier(loc[p].acc) # ""
            \/ loc[p].op = "setPassword" /\ validatePassword(loc[p].pw) # "")
        => FailedWithKeyringError(p)

\* ------------------------------------------------ claims on the envelope

\* the step is the rename that ends a write of p
Renames(p) == loc[p].pc = "rename" /\ loc'[p].pc = "done"

\* version(1) + nonce + auth tag + ciphertext, the tag being the one of
\* this ciphertext under this nonce
WellFormedEnvelope(file) ==
    /\ file.kind = "envelope"
    /\ file.version = FormatVersion
    /\ file.encrypted.n = file.iv
    /\ file.authTag = AuthTag(file.encrypted.k, file.iv, file.encrypted)

\* C22: every successful write leaves at the store path a file that is
\* version 1, nonce, auth tag and ciphertext, under a nonce other than the
\* one of the file it replaces, and so a file that differs from the one it
\* replaces, also when the plaintext map is the same.
C22_EnvelopeFormatAndFreshNonce ==
    [][\A p \in Procs :
          Renames(p)
          => /\ WellFormedEnvelope(storeFile')
             /\ storeFile' # storeFile
             /\ storeFile.kind = "envelope" => storeFile'.iv # storeFile.iv]_vars

\* two setPassword calls have written the same plaintext map, one after the
\* other, and their files differ; the later one is at the store path
C22_Witness ==
    \E p, q \in Procs :
        /\ loc[p].pc = "done" /\ loc[p].op = "setPassword"
        /\ loc[q].pc = "done" /\ loc[q].op = "setPassword"
        /\ loc[p].out = ReturnedVoid /\ loc[q].out = ReturnedVoid
        /\ loc[p].order < loc[q].order
        /\ loc[p].buf.encrypted.body = loc[q].buf.encrypted.body
        /\ loc[p].buf # loc[q].buf
        /\ storeFile = loc[q].buf

\* ------------------------------------------------ claims on the platforms

\* the id of the native backend of a platform
NativeIdOn(host) ==
    CASE host = "darwin" -> "native-macos"
      [] host = "linux" -> "native-linux"
      [] host = "win32" -> "native-windows"

\* C23: on every platform, the native module loading, an initBackend or
\* getKeyring that chose by auto-detection under no limit has installed the
\* native backend of the platform, of priority 10.
C23_NativePreferredOnEveryPlatform ==
    \A t \in Tasks :
        (/\ task[t].pc = "done"
         /\ task[t].wrote
         /\ task[t].source = "detect"
         /\ task[t].limit = "undefined")
        => /\ activeBackend.id = NativeIdOn(platform)
           /\ activeBackend.priority = 100

\* --------------------------------------------------------------- disable()

\* the config file disable() writes: { "defaultBackend": "null" }
DisabledConfig == Config("json", "null", FALSE)

\* disable() up to its first await, fs.access(file)
DisableCall(t) ==
    /\ t = "t2"
    /\ Free(t)
    /\ StartRegCall
    /\ task' = [task EXCEPT ![t] =
            [IdleTask EXCEPT !.op = "disable", !.pc = "access"]]
    /\ UNCHANGED <<storeVars, propVars, cmd, builtinFactories, cachedBackends,
                   activeBackend, backendLimit, envBackend, configFile,
                   platform, instances>>

\* fs.access has settled: the KeyringError thrown when the file is there
\* has no code and is thrown again by the catch; ENOENT goes on to
\* ensureParent
DisableAccess(t) ==
    /\ task[t].pc = "access"
    /\ task' = [task EXCEPT ![t] =
            IF configFile.kind # "ENOENT"
            THEN Settle(task[t], Rejected("KeyringError"))
            ELSE [task[t] EXCEPT !.pc = "ensureParent"]]
    /\ UNCHANGED <<storeVars, propVars, cmd, builtinFactories, cachedBackends,
                   activeBackend, backendLimit, envBackend, configFile,
                   platform, instances, regCalls>>

\* ensureParent has settled; fs.writeFile opens the file, which is empty
\* until its text is written
DisableOpen(t) ==
    /\ task[t].pc = "ensureParent"
    /\ configFile' = Config("malformed", "", FALSE)
    /\ task' = [task EXCEPT ![t].pc = "writeFile"]
    /\ UNCHANGED <<storeVars, propVars, cmd, builtinFactories, cachedBackends,
                   activeBackend, backendLimit, envBackend, platform,
                   instances, regCalls>>

\* fs.writeFile has settled
DisableWritten(t) ==
    /\ task[t].pc = "writeFile"
    /\ configFile' = DisabledConfig
    /\ task' = [task EXCEPT ![t] =
            Settle([task[t] EXCEPT !.wrote = TRUE], ResolvedVoid)]
    /\ UNCHANGED <<storeVars, propVars, cmd, builtinFactories, cachedBackends,
                   activeBackend, backendLimit, envBackend, platform,
                   instances, regCalls>>

\* a process that may hold a config file without a default backend, and
\* may have TS_KEYRING_BACKEND set
InitDisable ==
    /\ builtinFactories = BuiltinFactories
    /\ cachedBackends = NoCache
    /\ activeBackend = NoBackend
    /\ backendLimit = "undefined"
    /\ envBackend \in {"", "file"}
    /\ configFile \in {Config("ENOENT", "", FALSE), Config("json", "", FALSE)}
    /\ platform \in Platforms
    /\ task = [t \in Tasks |-> IdleTask]
    /\ instances = 0
    /\ procEnv = <<>>
    /\ objects = <<>>
    /\ cmd = NoCommand
    /\ regCalls = 0
    /\ storeFile = NoFile
    /\ keyFile = NoFile
    /\ tmpFile = [p \in Procs |-> NoFile]
    /\ envKey = "unset"
    /\ loc = [p \in Procs |-> IdleLoc]
    /\ keysDrawn = 0
    /\ noncesDrawn = 0
    /\ calls = 0
    /\ quietSet = QuietNone

\* getKeyring, which every operation of the public API awaits first, and
\* initBackend, against disable()
DisableNext ==
    \E t \in Tasks :
        \/ InitBackendCall(t)
        \/ t = "t1" /\ GetKeyringCall(t)
        \/ PromiseAllSettles(t)
        \/ ListResolved(t)
        \/ NextSource(t)
        \/ ReadConfig(t)
        \/ AssignActive(t)
        \/ GetKeyringReturn(t)
        \/ DisableCall(t)
        \/ DisableAccess(t)
        \/ DisableOpen(t)
        \/ DisableWritten(t)

SpecDisable == InitDisable /\ [][DisableNext]_vars

\* ------------------------------------------------------ claims on disable()

\* C24: a getKeyring that started after disable() had succeeded, as every
\* getPassword, setPassword and deletePassword of the public API starts
\* one, and that has resolved, has resolved to the Null backend.
C24_NullBackendAfterDisable ==
    \A t \in Tasks :
        (/\ task[t].pc = "done"
         /\ task[t].op = "getKeyring"
         /\ task[t].cfgAtCall = DisabledConfig
         /\ task[t].out.kind = "backend")
        => task[t].out.backend.cls = "NullBackend"

\* -------------------------------------------------------------- runCommand
MaxEvents == 3    \* events of the child explored in a run

\* the promise after resolve(value) or reject(reason): the first call wins
PromiseSettle(promise, outcome) ==
    IF promise.state = "pending" THEN outcome ELSE promise

Resolved(code, stdout, stderr) ==
    [state |-> "resolved", code |-> code, stdout |-> stdout,
     stderr |-> stderr]
RejectedWith(reason) == [state |-> "rejected", reason |-> reason]

\* what a step of the call does to the history: the first event, and one
\* more settlement when the promise was pending
Noted(c, event, settles) ==
    [c EXCEPT !.first = IF c.first = "none" THEN event ELSE c.first,
              !.settled = IF settles /\ c.promise.state = "pending"
                          THEN c.settled + 1 ELSE c.settled]

\* timeoutMs of the options: 0 stands for undefined and for 0
TimeoutInputs == {0, 100}
\* the exit code of the 'close' event; -1 stands for null
ExitCodes == {-1, 0, 1}

\* runCommand(command, args, options): the executor spawns the child, arms
\* the timer for a positive timeoutMs, registers its handlers and ends stdin
RunCommandCall(timeoutMs) ==
    /\ cmd.pc = "idle"
    /\ cmd' = [NoCommand EXCEPT !.pc = "running", !.timeoutMs = timeoutMs,
                                !.timer = IF timeoutMs > 0 THEN "armed"
                                          ELSE "none"]
    /\ UNCHANGED <<storeVars, regVars, propVars>>

\* the timer callback: child.kill("SIGKILL"), then reject
TimerFires ==
    /\ cmd.pc = "running"
    /\ cmd.timer = "armed"
    /\ cmd' = [Noted(cmd, "timeout", TRUE) EXCEPT
                  !.timer = "fired",
                  !.kills = cmd.kills + 1,
                  !.lateKills = IF cmd.closed THEN cmd.lateKills + 1
                                ELSE cmd.lateKills,
                  !.promise = PromiseSettle(cmd.promise,
                                            RejectedWith("KeyringError: timed out"))]
    /\ UNCHANGED <<storeVars, regVars, propVars>>

\* child.stdout 'data' and child.stderr 'data'
ChildData(stream) ==
    /\ cmd.pc = "running"
    /\ ~cmd.closed
    /\ cmd.events < MaxEvents
    /\ cmd' = IF stream = "stdout"
              THEN [cmd EXCEPT !.stdout = Append(cmd.stdout, "o"),
                               !.sentOut = Append(cmd.sentOut, "o"),
                               !.events = cmd.events + 1]
              ELSE [cmd EXCEPT !.stderr = Append(cmd.stderr, "e"),
                               !.sentErr = Append(cmd.sentErr, "e"),
                               !.events = cmd.events + 1]
    /\ UNCHANGED <<storeVars, regVars, propVars>>

\* if (timer) clearTimeout(timer): a timer that has fired stays fired
clearTimeout(timer) == IF timer = "armed" THEN "cleared" ELSE timer

\* child 'error': the spawn failed, or the child could not be killed
ChildError ==
    /\ cmd.pc = "running"
    /\ ~cmd.closed
    /\ cmd.events < MaxEvents
    /\ cmd' = [Noted(cmd, "error", TRUE) EXCEPT
                  !.timer = clearTimeout(cmd.timer),
                  !.events = cmd.events + 1,
                  !.promise = PromiseSettle(cmd.promise,
                                            RejectedWith("error"))]
    /\ UNCHANGED <<storeVars, regVars, propVars>>

\* a 'close' handler that leaves the timer running
ChildCloseKeepsTimer(code) ==
    /\ cmd.pc = "running"
    /\ ~cmd.closed
    /\ cmd.events < MaxEvents
    /\ cmd' = [Noted(cmd, "close", TRUE) EXCEPT
                  !.events = cmd.events + 1,
                  !.closed = TRUE,
                  !.code = code,
                  !.promise = PromiseSettle(cmd.promise,
                      Resolved(IF code = -1 THEN 0 ELSE code,
                               cmd.stdout, cmd.stderr))]
    /\ UNCHANGED <<storeVars, regVars, propVars>>

\* child 'close' with its exit code: resolve({ code: code ?? 0, stdout,
\* stderr }) after clearTimeout
ChildClose(code) ==
    /\ cmd.pc = "running"
    /\ ~cmd.closed
    /\ cmd.events < MaxEvents
    /\ cmd' = [Noted(cmd, "close", TRUE) EXCEPT
                  !.timer = clearTimeout(cmd.timer),
                  !.events = cmd.events + 1,
                  !.closed = TRUE,
                  !.code = code,
                  !.promise = PromiseSettle(cmd.promise,
                      Resolved(IF code = -1 THEN 0 ELSE code,
                               cmd.stdout, cmd.stderr))]
    /\ UNCHANGED <<storeVars, regVars, propVars>>

InitCommand ==
    /\ cmd = NoCommand
    /\ procEnv = <<>>
    /\ objects = <<>>
    /\ storeFile = NoFile
    /\ keyFile = NoFile
    /\ tmpFile = [p \in Procs |-> NoFile]
    /\ envKey = "unset"
    /\ loc = [p \in Procs |-> IdleLoc]
    /\ keysDrawn = 0
    /\ noncesDrawn = 0
    /\ calls = 0
    /\ quietSet = QuietNone
    /\ builtinFactories = BuiltinFactories
    /\ cachedBackends = NoCache
    /\ activeBackend = NoBackend
    /\ backendLimit = "undefined"
    /\ envBackend = ""
    /\ configFile = Config("ENOENT", "", FALSE)
    /\ platform = "linux"
    /\ task = [t \in Tasks |-> IdleTask]
    /\ instances = 0
    /\ regCalls = 0

CommandNext ==
    \/ \E timeoutMs \in TimeoutInputs : RunCommandCall(timeoutMs)
    \/ TimerFires
    \/ \E stream \in {"stdout", "stderr"} : ChildData(stream)
    \/ ChildError
    \/ \E code \in ExitCodes : ChildClose(code)

SpecCommand == InitCommand /\ [][CommandNext]_vars

\* ---------------------------------------------------- claims on runCommand

\* C25: the promise of runCommand is settled once, by the first of the
\* child's 'close', the child's 'error' and the expiry of the timer, and
\* later events leave it as it is: after 'close' first it is resolved with
\* the exit code and all the child wrote, and no SIGKILL is ever sent;
\* after 'error' first it is rejected with the error and no SIGKILL is ever
\* sent; after the expiry first one SIGKILL was sent and it is rejected
\* with the KeyringError of the timeout; no SIGKILL goes to a closed child.
C25_RunCommandSettlesOnce ==
    /\ cmd.settled = IF cmd.first = "none" THEN 0 ELSE 1
    /\ cmd.lateKills = 0
    /\ CASE cmd.first = "none" -> cmd.promise.state = "pending"
         [] cmd.first = "close" ->
              /\ cmd.promise = Resolved(IF cmd.code = -1 THEN 0 ELSE cmd.code,
                                        cmd.sentOut, cmd.sentErr)
              /\ cmd.kills = 0
              /\ cmd.timer \in {"none", "cleared"}
         [] cmd.first = "error" ->
              /\ cmd.promise = RejectedWith("error")
              /\ cmd.kills = 0
              /\ cmd.timer \in {"none", "cleared"}
         [] cmd.first = "timeout" ->
              /\ cmd.promise = RejectedWith("KeyringError: timed out")
              /\ cmd.kills = 1
              /\ cmd.timer = "fired"

\* with the timer armed the child wrote to stdout, 'error' came first and
\* 'close' after it: the timer is cleared and the promise stays rejected
C25_Witness ==
    /\ cmd.first = "error"
    /\ cmd.closed
    /\ cmd.timeoutMs > 0
    /\ cmd.timer = "cleared"
    /\ cmd.sentOut # <<>>
    /\ cmd.promise.state = "rejected"

\* -------------------------------------------------- the store, sequentially

\* the calls of two backend instances on one store path, one call at a
\* time, nobody altering the files or dying
SequentialNext ==
    \E p \in Procs :
        /\ \A q \in Procs \ {p} : loc[q].pc = "idle"
        /\ \/ GetPasswordCall(p)
           \/ SetPasswordCall(p)
           \/ DeletePasswordCall(p)
           \/ ReadStoreFile(p)
           \/ ReadKeyFile(p)
           \/ TmpFileOpen(p)
           \/ TmpFileWritten(p)
           \/ RenameTmpFile(p)
           \/ Return(p)

SpecSequential == InitStored /\ [][SequentialNext]_vars

\* ------------------------------------------------ claims on the refinement

\* the abstract map: the (service, account, password) triples of the map
\* the store file holds
AbstractMap(file) == PairsOf(JSONparse(file.encrypted.body).val)

\* the abstract map without the pair of the call
WithoutPair(map, l) == {x \in map : <<x[1], x[2]>> # <<l.svc, l.acc>>}

\* the step ends the call of p
Ends(p) == loc[p].pc # "done" /\ loc'[p].pc = "done"

\* C26: with the calls issued one at a time, every step of the file store
\* is a step of the abstract map: a getPassword returns the password the
\* map holds for its pair, or null, and leaves the map; a setPassword that
\* succeeds puts its pair and changes no other; a deletePassword succeeds
\* only on a pair of the map and removes it and no other; a call that fails
\* and every step that ends no call leave the map as it is.
C26_StoreRefinesAbstractMap ==
    [][\A p \in Procs :
        LET before == AbstractMap(storeFile)
            after == AbstractMap(storeFile')
            l == loc'[p]
        IN IF ~Ends(p) THEN (loc'[p] # loc[p] => after = before)
           ELSE CASE l.out.kind = "error" -> after = before
                  [] l.op = "getPassword" ->
                       /\ after = before
                       /\ l.out = IF \E x \in before :
                                        <<x[1], x[2]>> = <<l.svc, l.acc>>
                                  THEN ReturnedValue(JsString(
                                         (CHOOSE x \in before :
                                            <<x[1], x[2]>> = <<l.svc, l.acc>>)[3]))
                                  ELSE ReturnedNull
                  [] l.op = "setPassword" ->
                       after = WithoutPair(before, l)
                                 \cup {<<l.svc, l.acc, l.pw>>}
                  [] l.op = "deletePassword" ->
                       /\ \E x \in before : <<x[1], x[2]>> = <<l.svc, l.acc>>
                       /\ after = WithoutPair(before, l)
                  [] OTHER -> TRUE]_vars

\* ---------------------------------------------------- concurrent first use

\* a registry as the module leaves it when loaded, the environment variable
\* unset or naming the file backend, and no config file
InitFirstUse ==
    /\ builtinFactories = BuiltinFactories
    /\ cachedBackends = NoCache
    /\ activeBackend = NoBackend
    /\ backendLimit = "undefined"
    /\ envBackend \in {"", "file"}
    /\ configFile = Config("ENOENT", "", FALSE)
    /\ platform \in Platforms
    /\ task = [t \in Tasks |-> IdleTask]
    /\ instances = 0
    /\ procEnv = <<>>
    /\ objects = <<>>
    /\ cmd = NoCommand
    /\ regCalls = 0
    /\ storeFile = NoFile
    /\ keyFile = NoFile
    /\ tmpFile = [p \in Procs |-> NoFile]
    /\ envKey = "unset"
    /\ loc = [p \in Procs |-> IdleLoc]
    /\ keysDrawn = 0
    /\ noncesDrawn = 0
    /\ calls = 0
    /\ quietSet = QuietNone

\* getKeyring, which every operation of the public API awaits first, called
\* by both callers
FirstUseNext ==
    \E t \in Tasks :
        \/ GetKeyringCall(t)
        \/ PromiseAllSettles(t)
        \/ ListResolved(t)
        \/ NextSource(t)
        \/ ReadConfig(t)
        \/ AssignActive(t)
        \/ GetKeyringReturn(t)

SpecFirstUse == InitFirstUse /\ [][FirstUseNext]_vars

\* ---------------------------------------------------- claims on first use

\* the getKeyring of t found no backend installed when it started, ran
\* initBackend, and has resolved
ResolvedFirstUse(t) ==
    /\ task[t].pc = "done"
    /\ task[t].op = "getKeyring"
    /\ task[t].k >= 1
    /\ task[t].out.kind = "backend"

\* C27: getKeyring calls that started while no backend was installed have
\* all resolved to one backend instance, the one that is installed.
C27_ConcurrentFirstUseOneBackend ==
    \A t, u \in Tasks :
        (ResolvedFirstUse(t) /\ ResolvedFirstUse(u))
        => /\ task[t].out.backend = task[u].out.backend
           /\ task[t].out.backend = activeBackend

\* -------------------------------------------------------- the reads alone

\* every state of the two files a read can meet: no store or a store
\* written under key 1, with the key file of key 1 there or gone, and the
\* master key of the environment set or not
InitReads ==
    /\ envKey \in {"valid", "unset"}
    /\ keyFile \in {NoFile, KeyBytes(1)}
    /\ keysDrawn = 1
    /\ storeFile \in {NoFile} \cup {encryptStore(seed, 1, 0) : seed \in SeedStores}
    /\ tmpFile = [p \in Procs |-> NoFile]
    /\ loc = [p \in Procs |-> IdleLoc]
    /\ noncesDrawn = 0
    /\ calls = 0
    /\ quietSet = QuietNone
    /\ builtinFactories = BuiltinFactories
    /\ cachedBackends = NoCache
    /\ activeBackend = NoBackend
    /\ backendLimit = "undefined"
    /\ envBackend = ""
    /\ configFile = Config("ENOENT", "", FALSE)
    /\ platform = "linux"
    /\ task = [t \in Tasks |-> IdleTask]
    /\ instances = 0
    /\ procEnv = <<>>
    /\ objects = <<>>
    /\ cmd = NoCommand
    /\ regCalls = 0

\* getPassword and getCredential with every step they can take
ReadsNext ==
    \E p \in Procs :
        \/ GetPasswordCall(p)
        \/ GetCredentialCall(p)
        \/ ReadStoreFile(p)
        \/ ReadKeyFile(p)
        \/ KeyFileOpen(p)
        \/ KeyFileWritten(p)
        \/ Return(p)

SpecReads == InitReads /\ [][ReadsNext]_vars

\* ------------------------------------------------------ claims on the reads

\* C28: no step of a getPassword or of a getCredential creates, alters or
\* removes the store file, the key file or a temporary file, whatever the
\* two files hold and however the call ends.
C28_ReadsWriteNothing ==
    [][\A p \in Procs :
          (loc'[p] # loc[p] /\ loc'[p].op \in {"getPassword", "getCredential"})
          => /\ storeFile' = storeFile
             /\ keyFile' = keyFile
             /\ tmpFile' = tmpFile]_vars

\* ------------------------------------------- claims on a failing selection

\* C29: an initBackend that has failed, no other call having started on the
\* registry since the module was loaded, has left the registry as loaded:
\* no active backend, no limit, no cached list.
C29_FailedInitLeavesRegistry ==
    \A t \in Tasks :
        (/\ task[t].pc = "done"
         /\ task[t].op = "initBackend"
         /\ task[t].out.kind = "error"
         /\ regCalls = 1)
        => /\ activeBackend = NoBackend
           /\ backendLimit = "undefined"
           /\ cachedBackends = NoCache

\* the backend loadBackendById gave loadBackendFromConfig, NoBackend for null
NamedByConfig(l) ==
    loadBackendById(l.cfgList, configFile.defaultBackend, l.limit, FALSE, 0)

====
